---- MODULE Spec2Model ----
(***************************************************************************)
(* Shape-space discretization, coefficient matrices, plane/mesh contours,  *)
(* per-bin aggregation, shape-mode animation and the figure lists of the   *)
(* plot makers of cvapipe_analysis, as state machines.                     *)
(*                                                                         *)
(* Floating point is modelled bit-exactly: float64 values as fixed-point   *)
(* naturals held in limbs (the integers of the model checker are 32 bits   *)
(* wide), float32 values as sign / 24-bit significand / exponent.          *)
(***************************************************************************)
EXTENDS Integers, Sequences, FiniteSets, TLC

VARIABLES
    caller_df,  \* shape mode: the data frame the caller holds
    call,       \* shape mode: the call made: op, the frame passed (df), arguments
    ret,        \* shape mode: NoResult until the call has returned or raised
    ret_again,  \* shape mode: the same for a repetition of the call
    mesh_call,  \* coefficients: the call made: op, row, prefix, lmax
    mesh_ret,   \* coefficients: NoResult until the call has returned or raised
    shtools_calls,  \* coefficients: matrices handed to the mesh reconstruction
    plane_call, \* contour: the call made: proj, mesh, and what vtk will return
    plane_ret,  \* contour: NoResult until the call has returned or raised
    plane_ret_again,  \* contour: the same for a repetition of the call
    vtk_calls,  \* contour: the vtk filters run so far
    agg_call,   \* aggregation: the options of run, the manifests on disk, the bin table
    agg,        \* aggregation: position of run, its df_agg, the collaborator calls made
    agg_fs,     \* aggregation: directories and files under the staging directory
    agg_jobs,   \* aggregation: the jobs handed to the distributed provider
    anim_call,  \* animation: the arguments of the call (df, df_agg, bin_indexes, ...)
    anim,       \* animation: position of the call, the caller's df_agg, the lists built
    anim_files, \* animation: the files written so far, in order
    plot_figs,  \* plotting: the list PlotMaker.figs of the class
    plot_self,  \* plotting: per instance, its own attribute figs if it has one
    plot_calls, \* plotting: the workflow, save and execute calls made, in order
    plot_log    \* plotting: the figures shown or saved, in order

shapeVars == <<caller_df, call, ret, ret_again>>

coeffVars == <<mesh_call, mesh_ret, shtools_calls>>

planeVars == <<plane_call, plane_ret, plane_ret_again, vtk_calls>>

aggVars == <<agg_call, agg, agg_fs, agg_jobs>>

animVars == <<anim_call, anim, anim_files>>

plotVars == <<plot_figs, plot_self, plot_calls, plot_log>>

vars == <<caller_df, call, ret, ret_again, mesh_call, mesh_ret, shtools_calls,
          plane_call, plane_ret, plane_ret_again, vtk_calls, agg_call, agg, agg_fs, agg_jobs,
          anim_call, anim, anim_files, plot_figs, plot_self, plot_calls, plot_log>>

\* ------------------------------------------------------------------------
\* Naturals of up to 80 bits: four little-endian limbs in base 2^20.
\* ------------------------------------------------------------------------
Base == 2^20

NatZero == <<0, 0, 0, 0>>

NatFromInt(k) == <<k % Base, k \div Base, 0, 0>>

RECURSIVE NatAddC(_, _, _, _)
NatAddC(a, b, i, c) ==
    IF i > Len(a) THEN <<>>
    ELSE LET s == a[i] + b[i] + c
         IN  <<s % Base>> \o NatAddC(a, b, i + 1, s \div Base)

NatAdd(a, b) == NatAddC(a, b, 1, 0)

\* a - b for a >= b
RECURSIVE NatSubC(_, _, _, _)
NatSubC(a, b, i, c) ==
    IF i > Len(a) THEN <<>>
    ELSE LET s == a[i] - b[i] - c
         IN  IF s < 0 THEN <<s + Base>> \o NatSubC(a, b, i + 1, 1)
                      ELSE <<s>> \o NatSubC(a, b, i + 1, 0)

NatSub(a, b) == NatSubC(a, b, 1, 0)

\* -1, 0, 1 as a < b, a = b, a > b
RECURSIVE NatCmpFrom(_, _, _)
NatCmpFrom(a, b, i) ==
    IF i = 0 THEN 0
    ELSE IF a[i] < b[i] THEN -1
    ELSE IF a[i] > b[i] THEN 1
    ELSE NatCmpFrom(a, b, i - 1)

NatCmp(a, b) == NatCmpFrom(a, b, Len(a))

\* a * k for 0 <= k < 2^10
RECURSIVE NatMulC(_, _, _, _)
NatMulC(a, k, i, c) ==
    IF i > Len(a) THEN <<>>
    ELSE LET s == a[i] * k + c
         IN  <<s % Base>> \o NatMulC(a, k, i + 1, s \div Base)

NatMulSmall(a, k) == NatMulC(a, k, 1, 0)

\* a * 2^n
RECURSIVE NatShl(_, _)
NatShl(a, n) ==
    IF n = 0 THEN a
    ELSE IF n >= 20 THEN NatShl(<<0>> \o SubSeq(a, 1, Len(a) - 1), n - 20)
    ELSE IF n >= 10 THEN NatShl(NatMulSmall(a, 2^10), n - 10)
    ELSE NatMulSmall(a, 2^n)

\* floor(a / k) and a mod k for 0 < k < 2^10
RECURSIVE NatDivC(_, _, _, _)
NatDivC(a, k, i, r) ==
    IF i = 0 THEN [q |-> <<>>, r |-> r]
    ELSE LET cur  == r * Base + a[i]
             rest == NatDivC(a, k, i - 1, cur % k)
         IN  [q |-> rest.q \o <<cur \div k>>, r |-> rest.r]

NatDivSmall(a, k) == NatDivC(a, k, Len(a), 0)

RECURSIVE BitLenInt(_)
BitLenInt(x) == IF x = 0 THEN 0 ELSE 1 + BitLenInt(x \div 2)

RECURSIVE NatBitLenFrom(_, _)
NatBitLenFrom(a, i) ==
    IF i = 0 THEN 0
    ELSE IF a[i] # 0 THEN 20 * (i - 1) + BitLenInt(a[i])
    ELSE NatBitLenFrom(a, i - 1)

NatBitLen(a) == NatBitLenFrom(a, Len(a))

NatIsOdd(a) == a[1] % 2 = 1

\* ------------------------------------------------------------------------
\* float64 (Python float, numpy float64): sign and magnitude, the magnitude
\* a natural counting units of 2^-58; every operation rounds its exact
\* result to 53 significant bits, ties to even.  The values met here lie in
\* [2^-4, 2^20) or are exact small differences, so the grid is exact.
\* ------------------------------------------------------------------------
F64Precision == 53

\* mag (plus a non-zero fraction below the unit when sticky) rounded to
\* F64Precision significant bits
F64RoundMag(mag, sticky) ==
    LET len == NatBitLen(mag)
        d   == len - F64Precision
    IN  IF d <= 0 THEN mag
        ELSE LET low  == mag[1] % (2^d)
                 half == 2^(d - 1)
                 down == NatSub(mag, NatFromInt(low))
                 qodd == (mag[1] \div (2^d)) % 2 = 1
                 up   == \/ low > half
                         \/ low = half /\ (sticky \/ qodd)
             IN  IF up THEN NatAdd(down, NatFromInt(2^d)) ELSE down

F64(neg, mag) == [neg |-> neg /\ mag # NatZero, mag |-> mag]

\* the float64 nearest to a / b, for integers a and 0 < b < 2^10
F64Ratio(a, b) ==
    LET absa == IF a < 0 THEN -a ELSE a
        d    == NatDivSmall(NatShl(NatFromInt(absa), 58), b)
    IN  F64(a < 0, F64RoundMag(d.q, d.r # 0))

F64FromInt(a) == F64Ratio(a, 1)

F64Neg(x) == F64(~x.neg, x.mag)

F64Add(x, y) ==
    IF x.neg = y.neg
    THEN F64(x.neg, F64RoundMag(NatAdd(x.mag, y.mag), FALSE))
    ELSE IF NatCmp(x.mag, y.mag) >= 0
    THEN F64(x.neg, F64RoundMag(NatSub(x.mag, y.mag), FALSE))
    ELSE F64(y.neg, F64RoundMag(NatSub(y.mag, x.mag), FALSE))

F64Sub(x, y) == F64Add(x, F64Neg(y))

\* i * x for an integer 0 <= i < 2^10
F64MulInt(i, x) == F64(x.neg, F64RoundMag(NatMulSmall(x.mag, i), FALSE))

\* x * i for an integer -2^10 < i < 2^10
F64Times(x, i) == IF i < 0 THEN F64Neg(F64MulInt(-i, x)) ELSE F64MulInt(i, x)

\* x / n for an integer 0 < n < 2^10
F64DivInt(x, n) ==
    LET d == NatDivSmall(x.mag, n)
    IN  F64(x.neg, F64RoundMag(d.q, d.r # 0))

\* the elements of xs added from left to right
RECURSIVE F64SumFrom(_, _, _)
F64SumFrom(xs, i, acc) ==
    IF i > Len(xs) THEN acc ELSE F64SumFrom(xs, i + 1, F64Add(acc, xs[i]))

\* |x - y| < 2^-50
F64Near(x, y) == NatCmp(F64Sub(x, y).mag, NatShl(NatFromInt(1), 8)) < 0

\* x < y
F64Less(x, y) ==
    IF x.neg /\ ~y.neg THEN TRUE
    ELSE IF ~x.neg /\ y.neg THEN FALSE
    ELSE IF x.neg THEN NatCmp(x.mag, y.mag) > 0
    ELSE NatCmp(x.mag, y.mag) < 0

\* ------------------------------------------------------------------------
\* float32 (numpy float32): kind "fin" is (-1)^neg * m * 2^e with m = 0 or
\* 2^23 <= m < 2^24; kinds "nan" and "inf" are the IEEE specials.  Every
\* operation rounds its exact result to 24 significant bits, ties to even.
\* ------------------------------------------------------------------------
F32Precision == 24

F32NaN == [kind |-> "nan", neg |-> FALSE, m |-> 0, e |-> 0]

F32Inf(neg) == [kind |-> "inf", neg |-> neg, m |-> 0, e |-> 0]

F32Zero(neg) == [kind |-> "fin", neg |-> neg, m |-> 0, e |-> 0]

\* (-1)^neg * (big + fraction) * 2^e rounded; the fraction is non-zero
\* when sticky, and then big carries at least two bits beyond the precision
F32Round(neg, big, e, sticky) ==
    LET len == BitLenInt(big)
        d   == len - F32Precision
    IN  IF big = 0 THEN F32Zero(neg)
        ELSE IF d <= 0
        THEN [kind |-> "fin", neg |-> neg, m |-> big * 2^(-d), e |-> e + d]
        ELSE LET q    == big \div (2^d)
                 low  == big % (2^d)
                 half == 2^(d - 1)
                 up   == \/ low > half
                         \/ low = half /\ (sticky \/ q % 2 = 1)
                 r    == IF up THEN q + 1 ELSE q
             IN  IF r = 2^F32Precision
                 THEN [kind |-> "fin", neg |-> neg, m |-> r \div 2, e |-> e + d + 1]
                 ELSE [kind |-> "fin", neg |-> neg, m |-> r, e |-> e + d]

F32FromInt(k) == F32Round(k < 0, IF k < 0 THEN -k ELSE k, 0, FALSE)

F32Neg(x) == [x EXCEPT !.neg = ~x.neg]

\* |x| >= |y| for finite x, y
F32MagGeq(x, y) ==
    IF y.m = 0 THEN TRUE
    ELSE IF x.m = 0 THEN FALSE
    ELSE x.e > y.e \/ (x.e = y.e /\ x.m >= y.m)

F32AddFin(x, y) ==
    LET big   == IF F32MagGeq(x, y) THEN x ELSE y
        small == IF F32MagGeq(x, y) THEN y ELSE x
        d     == big.e - small.e
        a     == big.m * 2^5
        exact == d <= 5
        b     == IF exact THEN small.m * 2^(5 - d)
                 ELSE IF d - 5 >= F32Precision THEN 0
                 ELSE small.m \div (2^(d - 5))
        lost  == IF exact THEN FALSE
                 ELSE IF d - 5 >= F32Precision THEN TRUE
                 ELSE small.m % (2^(d - 5)) # 0
    IN  IF small.m = 0 THEN (IF big.m = 0 THEN F32Zero(x.neg /\ y.neg) ELSE big)
        ELSE IF big.neg = small.neg THEN F32Round(big.neg, a + b, big.e - 5, lost)
        ELSE IF lost THEN F32Round(big.neg, a - b - 1, big.e - 5, TRUE)
        ELSE IF a = b THEN F32Zero(FALSE)
        ELSE F32Round(big.neg, a - b, big.e - 5, FALSE)

F32Add(x, y) ==
    IF x.kind = "nan" \/ y.kind = "nan" THEN F32NaN
    ELSE IF x.kind = "inf" /\ y.kind = "inf"
    THEN (IF x.neg = y.neg THEN x ELSE F32NaN)
    ELSE IF x.kind = "inf" THEN x
    ELSE IF y.kind = "inf" THEN y
    ELSE F32AddFin(x, y)

F32Sub(x, y) == F32Add(x, F32Neg(y))

F32MulFin(x, y) ==
    LET a1  == x.m \div 2^12
        b1  == x.m % 2^12
        a2  == y.m \div 2^12
        b2  == y.m % 2^12
        mid == a1 * b2 + a2 * b1
        low == (mid % 2^6) * 2^12 + b1 * b2
        top == a1 * a2 * 2^6 + mid \div 2^6 + low \div 2^18
    IN  F32Round(x.neg # y.neg, top, x.e + y.e + 18, low % 2^18 # 0)

F32Mul(x, y) ==
    IF x.kind = "nan" \/ y.kind = "nan" THEN F32NaN
    ELSE IF x.kind = "inf" \/ y.kind = "inf"
    THEN (IF (x.kind = "fin" /\ x.m = 0) \/ (y.kind = "fin" /\ y.m = 0)
          THEN F32NaN ELSE F32Inf(x.neg # y.neg))
    ELSE IF x.m = 0 \/ y.m = 0 THEN F32Zero(x.neg # y.neg)
    ELSE F32MulFin(x, y)

\* long division, bits fractional bits at a time
F32DivStep(qr, den, bits) ==
    [q |-> qr.q * 2^bits + (qr.r * 2^bits) \div den, r |-> (qr.r * 2^bits) % den]

F32DivFin(x, y) ==
    LET s0 == [q |-> x.m \div y.m, r |-> x.m % y.m]
        s1 == F32DivStep(s0, y.m, 6)
        s2 == F32DivStep(s1, y.m, 6)
        s3 == F32DivStep(s2, y.m, 6)
        s4 == F32DivStep(s3, y.m, 6)
        s5 == F32DivStep(s4, y.m, 2)
    IN  F32Round(x.neg # y.neg, s5.q, x.e - y.e - 26, s5.r # 0)

F32Div(x, y) ==
    IF x.kind = "nan" \/ y.kind = "nan" THEN F32NaN
    ELSE IF x.kind = "inf"
    THEN (IF y.kind = "inf" THEN F32NaN ELSE F32Inf(x.neg # y.neg))
    ELSE IF y.kind = "inf" THEN F32Zero(x.neg # y.neg)
    ELSE IF y.m = 0 THEN (IF x.m = 0 THEN F32NaN ELSE F32Inf(x.neg # y.neg))
    ELSE IF x.m = 0 THEN F32Zero(x.neg # y.neg)
    ELSE F32DivFin(x, y)

\* digit-by-digit square root of the 54-bit natural m * 2^28 (m < 2^26):
\* pair i of 27 bit pairs, most significant first
RECURSIVE F32SqrtDigits(_, _, _, _)
F32SqrtDigits(m, i, root, rem) ==
    IF i > 27 THEN [root |-> root, rem |-> rem]
    ELSE LET pair == IF i <= 13 THEN (m \div (4^(13 - i))) % 4 ELSE 0
             cur  == rem * 4 + pair
             try  == 4 * root + 1
         IN  IF cur >= try
             THEN F32SqrtDigits(m, i + 1, 2 * root + 1, cur - try)
             ELSE F32SqrtDigits(m, i + 1, 2 * root, cur)

F32Sqrt(x) ==
    IF x.kind = "nan" THEN F32NaN
    ELSE IF x.kind = "fin" /\ x.m = 0 THEN x
    ELSE IF x.neg THEN F32NaN
    ELSE IF x.kind = "inf" THEN x
    ELSE LET odd == x.e % 2 = 1
             m   == IF odd THEN 2 * x.m ELSE x.m
             e   == IF odd THEN x.e - 1 ELSE x.e
             s   == F32SqrtDigits(m, 1, 0, 0)
         IN  F32Round(FALSE, s.root, (e - 28) \div 2, s.rem # 0)

\* floor and ceiling of |x| in units of 2^-58, for finite x of |x| < 2^20
F32FloorMag(x) ==
    IF x.e + 58 >= 0 THEN NatShl(NatFromInt(x.m), x.e + 58)
    ELSE IF -(x.e + 58) >= F32Precision THEN NatZero
    ELSE NatFromInt(x.m \div (2^(-(x.e + 58))))

F32CeilMag(x) ==
    IF x.e + 58 >= 0 THEN F32FloorMag(x)
    ELSE IF x.m = 0 THEN NatZero
    ELSE IF -(x.e + 58) >= F32Precision THEN NatFromInt(1)
    ELSE IF x.m % (2^(-(x.e + 58))) = 0 THEN F32FloorMag(x)
    ELSE NatAdd(F32FloorMag(x), NatFromInt(1))

\* edge <= x for a float64 edge and a finite float32 x (float32 converts to
\* float64 exactly, so this is the exact comparison of the two reals)
F64LeqF32(edge, x) ==
    IF x.m = 0 \/ ~x.neg
    THEN edge.neg \/ NatCmp(edge.mag, F32FloorMag(x)) <= 0
    ELSE edge.neg /\ NatCmp(edge.mag, F32CeilMag(x)) >= 0

\* ------------------------------------------------------------------------
\* Data frames: a sequence of rows in index order, each row a function from
\* column names to values; column "id" is the index label (the CellId).
\* ------------------------------------------------------------------------
Columns(df) == IF df = <<>> THEN {} ELSE DOMAIN df[1]

SetCol(row, c, v) == [k \in DOMAIN row \cup {c} |-> IF k = c THEN v ELSE row[k]]

DropCol(row, c) == [k \in DOMAIN row \ {c} |-> row[k]]

\* <<Op(s[1]), ..., Op(s[Len(s)])>>
RECURSIVE SeqMap(_, _)
SeqMap(Op(_), s) == IF s = <<>> THEN <<>> ELSE <<Op(s[1])>> \o SeqMap(Op, Tail(s))

\* <<1, ..., n>>
RECURSIVE Indices(_)
Indices(n) == IF n = 0 THEN <<>> ELSE Append(Indices(n - 1), n)

ColValues(df, c) == SeqMap(LAMBDA row : row[c], df)

RECURSIVE SelectRows(_, _)
SelectRows(df, keep) ==
    IF df = <<>> THEN <<>>
    ELSE IF keep[1] THEN <<df[1]>> \o SelectRows(Tail(df), Tail(keep))
    ELSE SelectRows(Tail(df), Tail(keep))

\* ascending sort of a sequence of integers (insertion sort)
RECURSIVE InsertSorted(_, _)
InsertSorted(s, x) ==
    IF s = <<>> THEN <<x>>
    ELSE IF x < s[1] THEN <<x>> \o s
    ELSE <<s[1]>> \o InsertSorted(Tail(s), x)

RECURSIVE SortInts(_)
SortInts(s) == IF s = <<>> THEN <<>> ELSE InsertSorted(SortInts(Tail(s)), s[1])

RECURSIVE SumInts(_)
SumInts(s) == IF s = <<>> THEN 0 ELSE s[1] + SumInts(Tail(s))

\* ------------------------------------------------------------------------
\* filter_extremes_based_on_percentile
\* ------------------------------------------------------------------------
\* 100 * np.percentile(vals, q) with numpy's default linear interpolation:
\* the virtual index is q/100 * (n-1).  Exact for the integer columns and
\* the percentiles of PctValues (no interpolated cut-off is within rounding
\* distance of a column value it does not equal).
Percentile100(vals, q) ==
    LET sorted == SortInts(vals)
        pos    == q * (Len(vals) - 1)
        lo     == pos \div 100 + 1
        gamma  == pos % 100
    IN  IF gamma = 0 THEN 100 * sorted[lo]
        ELSE 100 * sorted[lo] + gamma * (sorted[lo + 1] - sorted[lo])

\* the loop over features: flags rows of the whole frame, feature by feature
RECURSIVE FlagExtremesMutant(_, _, _)
FlagExtremesMutant(df, features, pct) ==
    IF features = <<>> THEN [status |-> "ok", df |-> df]
    ELSE LET f == Head(features)
         IN  IF f \notin Columns(df) THEN [status |-> "KeyError", df |-> df]
             ELSE IF pct < 0 \/ pct > 100 THEN [status |-> "ValueError", df |-> df]
             ELSE LET alive == SelectRows(df, SeqMap(LAMBDA row : ~row["extreme"], df))
                  IN  IF alive = <<>> THEN [status |-> "IndexError", df |-> df] ELSE
                  LET finf == Percentile100(ColValues(alive, f), pct)
                      fsup == Percentile100(ColValues(alive, f), 100 - pct)
                      flagged == SeqMap(LAMBDA row :
                                    IF 100 * row[f] < finf \/ 100 * row[f] > fsup
                                    THEN SetCol(row, "extreme", TRUE)
                                    ELSE row, df)
                  IN  FlagExtremesMutant(flagged, Tail(features), pct)

RECURSIVE FlagExtremes(_, _, _)
FlagExtremes(df, features, pct) ==
    IF features = <<>> THEN [status |-> "ok", df |-> df]
    ELSE LET f == Head(features)
         IN  IF f \notin Columns(df) THEN [status |-> "KeyError", df |-> df]
             ELSE IF pct < 0 \/ pct > 100 THEN [status |-> "ValueError", df |-> df]
             ELSE LET finf == Percentile100(ColValues(df, f), pct)
                      fsup == Percentile100(ColValues(df, f), 100 - pct)
                      flagged == SeqMap(LAMBDA row :
                                    IF 100 * row[f] < finf \/ 100 * row[f] > fsup
                                    THEN SetCol(row, "extreme", TRUE)
                                    ELSE row, df)
                  IN  FlagExtremes(flagged, Tail(features), pct)

\* a variant that also drops the flagged rows from the caller's frame
FilterInPlace(df, features, pct) ==
    LET marked == SeqMap(LAMBDA row : SetCol(row, "extreme", FALSE), df)
        loop   == FlagExtremes(marked, features, pct)
        kept   == SelectRows(loop.df, SeqMap(LAMBDA row : ~row["extreme"], loop.df))
    IN  IF loop.status # "ok"
        THEN [status |-> loop.status, df |-> <<>>, caller |-> loop.df]
        ELSE [status |-> "ok",
              df     |-> SeqMap(LAMBDA row : DropCol(row, "extreme"), kept),
              caller |-> kept]

\* [status, df: the frame returned, caller: the caller's frame after the call]
filter_extremes_based_on_percentile(df, features, pct) ==
    LET marked == SeqMap(LAMBDA row : SetCol(row, "extreme", FALSE), df)
        loop   == FlagExtremes(marked, features, pct)
        kept   == SelectRows(loop.df, SeqMap(LAMBDA row : ~row["extreme"], loop.df))
    IN  IF loop.status # "ok"
        THEN [status |-> loop.status, df |-> <<>>, caller |-> loop.df]
        ELSE [status |-> "ok",
              df     |-> SeqMap(LAMBDA row : DropCol(row, "extreme"), kept),
              caller |-> loop.df]

\* ------------------------------------------------------------------------
\* digitize_shape_mode
\* ------------------------------------------------------------------------
\* np.add.reduce over a float32 array of fewer than 8 elements: a running
\* float32 sum, left to right
RECURSIVE F32SumFrom(_, _, _)
F32SumFrom(xs, i, acc) ==
    IF i > Len(xs) THEN acc ELSE F32SumFrom(xs, i + 1, F32Add(acc, xs[i]))

F32Sum(xs) == F32SumFrom(xs, 1, F32Zero(FALSE))

\* ndarray.mean() of a float32 array
F32Mean(xs) == F32Div(F32Sum(xs), F32FromInt(Len(xs)))

\* ndarray.std() of a float32 array (ddof = 0): the mean is taken again,
\* the squared deviations are averaged and the root is extracted
F32Std(xs) ==
    LET arrmean == F32Mean(xs)
        x       == SeqMap(LAMBDA v : F32Sub(v, arrmean), xs)
        sq      == SeqMap(LAMBDA v : F32Mul(v, v), x)
    IN  F32Sqrt(F32Mean(sq))

\* lines 133-140: [values: the z-scored feature, pc_std]
ZScore(ints) ==
    LET raw      == SeqMap(F32FromInt, ints)
        mean     == F32Mean(raw)
        centered == SeqMap(LAMBDA v : F32Sub(v, mean), raw)
        pc_std   == F32Std(centered)
    IN  [values |-> SeqMap(LAMBDA v : F32Div(v, pc_std), centered),
         pc_std |-> pc_std]

LINF == -2

LSUP == 2

\* binw = (LSUP-LINF)/(2*(nbins-1))
BinHalfWidth(nbins) == F64Ratio(LSUP - LINF, 2 * (nbins - 1))

\* np.linspace(LINF, LSUP, nbins): arange(nbins) * step + LINF with
\* step = (LSUP-LINF)/(nbins-1), the last element set to LSUP
BinCenters(nbins) ==
    LET step == F64Ratio(LSUP - LINF, nbins - 1)
    IN  SeqMap(LAMBDA i : IF i = nbins THEN F64FromInt(LSUP)
                          ELSE F64Add(F64MulInt(i - 1, step), F64FromInt(LINF)),
               Indices(nbins))

\* ascending sort of float64 values without duplicates (np.unique)
RECURSIVE F64InsertUnique(_, _)
F64InsertUnique(s, x) ==
    IF s = <<>> THEN <<x>>
    ELSE IF x = s[1] THEN s
    ELSE IF F64Less(x, s[1]) THEN <<x>> \o s
    ELSE <<s[1]>> \o F64InsertUnique(Tail(s), x)

RECURSIVE F64Unique(_)
F64Unique(s) == IF s = <<>> THEN <<>> ELSE F64InsertUnique(F64Unique(Tail(s)), s[1])

\* lines 148-151: np.unique of all center -/+ binw, then the first edge
\* replaced by -inf and the last by +inf
BinEdges(nbins) ==
    LET centers == BinCenters(nbins)
        binw    == BinHalfWidth(nbins)
        pairs   == SeqMap(LAMBDA i : IF i % 2 = 1
                                     THEN F64Sub(centers[(i + 1) \div 2], binw)
                                     ELSE F64Add(centers[i \div 2], binw),
                          Indices(2 * nbins))
        uniq    == F64Unique(pairs)
    IN  SeqMap(LAMBDA i : IF i = 1 THEN [inf |-> -1, v |-> uniq[i]]
                          ELSE IF i = Len(uniq) THEN [inf |-> 1, v |-> uniq[i]]
                          ELSE [inf |-> 0, v |-> uniq[i]],
               Indices(Len(uniq)))

\* a variant that raises the bin count to 2 where the code fails
BinSetupClamped(nbins) ==
    LET n == IF nbins < 2 THEN 2 ELSE nbins
    IN  [status |-> "ok", bin_centers |-> BinCenters(n), bin_edges |-> BinEdges(n)]

\* lines 145-151: the division by 2*(nbins-1) raises for nbins = 1,
\* np.linspace raises for a negative number of samples, and for nbins = 0
\* the edge array is empty and the assignment to bin_edges[0] raises
BinSetup(nbins) ==
    IF nbins = 1 THEN [status |-> "ZeroDivisionError"]
    ELSE IF nbins < 0 THEN [status |-> "ValueError"]
    ELSE IF nbins = 0 THEN [status |-> "IndexError"]
    ELSE [status |-> "ok", bin_centers |-> BinCenters(nbins), bin_edges |-> BinEdges(nbins)]

\* edge <= x, the comparison of np.searchsorted
EdgeLeq(edge, x) ==
    IF x.kind = "nan" THEN TRUE
    ELSE IF edge.inf = -1 THEN TRUE
    ELSE IF edge.inf = 1 THEN x.kind = "inf" /\ ~x.neg
    ELSE IF x.kind = "inf" THEN ~x.neg
    ELSE F64LeqF32(edge.v, x)

\* np.digitize(x, bin_edges) for increasing edges: searchsorted on the
\* right, the number of edges that are <= x (all of them for a NaN)
Digitize(x, edges) == Cardinality({i \in DOMAIN edges : EdgeLeq(edges[i], x)})

\* the distinct values of column "bin", ascending (the group keys of groupby)
RECURSIVE AscendingSeq(_)
AscendingSeq(S) ==
    IF S = {} THEN <<>>
    ELSE LET least == CHOOSE x \in S : \A y \in S : x <= y
         IN  <<least>> \o AscendingSeq(S \ {least})

BinKeys(df) == AscendingSeq({df[i]["bin"] : i \in DOMAIN df})

\* lines 165-168: one (bin, index of its rows) pair per group
BinIndexes(df) ==
    LET keys == BinKeys(df)
    IN  SeqMap(LAMBDA b : <<b, ColValues(SelectRows(df, SeqMap(LAMBDA row : row["bin"] = b, df)),
                                         "id")>>,
               keys)

NoResult == [status |-> "none"]

\* line 166: df.groupby(["bin"]).mean(), one row per bin with the float64
\* means of the numeric columns (structure_name is not numeric and dropped)
GroupMeans(df) ==
    SeqMap(LAMBDA b :
              LET rows == SelectRows(df, SeqMap(LAMBDA row : row["bin"] = b, df))
              IN  [bin |-> b,
                   pc1 |-> F64Ratio(SumInts(ColValues(rows, "pc1")), Len(rows)),
                   pc2 |-> F64Ratio(SumInts(ColValues(rows, "pc2")), Len(rows))],
           BinKeys(df))

\* lines 173-178: the number of rows per structure_name and bin
StructureFreqs(df) ==
    {<<df[i]["structure_name"], df[i]["bin"],
       Cardinality({j \in DOMAIN df : /\ df[j]["structure_name"] = df[i]["structure_name"]
                                      /\ df[j]["bin"] = df[i]["bin"]})>> :
     i \in DOMAIN df}

\* lines 126-181, what follows the feature check: [status, returned: the
\* tuple the call returns, df, bin_indexes, bin_centers, pc_std] and caller,
\* the frame the caller passed in as the call leaves it; values and
\* bin_edges are the locals of the same names.  Each local is computed
\* once: f (line 126), z (lines 133-140), bins (lines 145-151), out (line
\* 154) and bin_indexes (lines 165-168).
DigitizeChecked(df, feature, nbins, filter_based_on, filter_extremes_pct, return_freqs_per_structs) ==
    CHOOSE result \in
        {IF f.status # "ok" THEN [status |-> f.status, caller |-> f.caller]
         ELSE CHOOSE binned \in
            {IF bins.status # "ok" THEN [status |-> bins.status, caller |-> f.caller]
             ELSE CHOOSE digitized \in
                {CHOOSE returned \in
                    {[status      |-> "ok",
                      returned    |-> IF return_freqs_per_structs
                                      THEN <<GroupMeans(out), bin_indexes,
                                             <<bins.bin_centers, z.pc_std>>,
                                             StructureFreqs(out)>>
                                      ELSE <<out, bin_indexes,
                                             <<bins.bin_centers, z.pc_std>>>>,
                      df          |-> out,
                      bin_indexes |-> bin_indexes,
                      bin_centers |-> bins.bin_centers,
                      pc_std      |-> z.pc_std,
                      values      |-> z.values,
                      bin_edges   |-> bins.bin_edges,
                      caller      |-> f.caller] :
                     bin_indexes \in {BinIndexes(out)}} : TRUE :
                 out \in {SeqMap(LAMBDA i : SetCol(f.df[i], "bin",
                                                    Digitize(z.values[i], bins.bin_edges)),
                                 Indices(Len(f.df)))}} : TRUE :
             z \in {ZScore(ColValues(f.df, feature))}, bins \in {BinSetup(nbins)}} : TRUE :
         f \in {filter_extremes_based_on_percentile(df, filter_based_on,
                                                     filter_extremes_pct)}} : TRUE

\* a variant that looks for the feature only after the filter has run
DigitizeFilterFirst(df, feature, nbins, filter_based_on, filter_extremes_pct, return_freqs_per_structs) ==
    LET f == filter_extremes_based_on_percentile(df, filter_based_on, filter_extremes_pct)
    IN  IF f.status # "ok" THEN [status |-> f.status, caller |-> f.caller]
        ELSE IF feature \notin Columns(f.df)
        THEN [status |-> "ValueError", caller |-> f.caller]
        ELSE DigitizeChecked(df, feature, nbins, filter_based_on, filter_extremes_pct,
                             return_freqs_per_structs)

\* the call as a whole; lines 122-123 come first
digitize_shape_mode(df, feature, nbins, filter_based_on, filter_extremes_pct, return_freqs_per_structs) ==
    IF feature \notin Columns(df)
    THEN [status |-> "ValueError", caller |-> df]
    ELSE DigitizeChecked(df, feature, nbins, filter_based_on, filter_extremes_pct,
                         return_freqs_per_structs)

\* ------------------------------------------------------------------------
\* get_shcoeff_matrix_from_dataframe, get_mesh_from_dataframe
\* A row (pd.Series) is a function from field names to numbers; a field
\* name is a sequence of characters.
\* ------------------------------------------------------------------------
Digit(d) == <<"0", "1", "2", "3", "4", "5", "6", "7", "8", "9">>[d + 1]

\* str(n) for a non-negative integer, as in an f-string
RECURSIVE Decimal(_)
Decimal(n) ==
    IF n < 10 THEN <<Digit(n)>> ELSE Decimal(n \div 10) \o <<Digit(n % 10)>>

\* f"{prefix}{l}M{m}C" and f"{prefix}{l}M{m}S"
CoeffKey(prefix, l, m, suffix) ==
    prefix \o Decimal(l) \o <<"M">> \o Decimal(m) \o <<suffix>>

\* key in f, for strings
Contains(key, f) ==
    \E i \in 0..(Len(f) - Len(key)) : SubSeq(f, i + 1, i + Len(key)) = key

\* [f for f in row.keys() if key in f]
Matching(row, key) == {f \in DOMAIN row : Contains(key, f)}

\* np.zeros((2, lmax, lmax), dtype=np.float32)
ZeroMatrix(lmax) ==
    [idx \in {0, 1} \X (0..(lmax - 1)) \X (0..(lmax - 1)) |-> F32Zero(FALSE)]

\* the (l, m) pairs in loop order
RECURSIVE DegreeOrderPairsFrom(_, _, _)
DegreeOrderPairsFrom(l, m, lmax) ==
    IF l >= lmax THEN <<>>
    ELSE IF m > l THEN DegreeOrderPairsFrom(l + 1, 0, lmax)
    ELSE <<(<<l, m>>)>> \o DegreeOrderPairsFrom(l, m + 1, lmax)

DegreeOrderPairs(lmax) == DegreeOrderPairsFrom(0, 0, lmax)

\* a variant of the loop body in which the sine entry is stored whether or
\* not the cosine assignment succeeded
StoreCoefficientsIndependently(coeffs, row, prefix, l, m) ==
    LET cs == Matching(row, CoeffKey(prefix, l, m, "C"))
        ss == Matching(row, CoeffKey(prefix, l, m, "S"))
        c1 == IF Cardinality(cs) = 1
              THEN [coeffs EXCEPT ![<<0, l, m>>] = F32FromInt(row[CHOOSE f \in cs : TRUE])]
              ELSE coeffs
    IN  IF Cardinality(ss) = 1
        THEN [c1 EXCEPT ![<<1, l, m>>] = F32FromInt(row[CHOOSE f \in ss : TRUE])]
        ELSE c1

\* the body of the loop: both assignments sit in one try block, and an
\* assignment of a selection that does not hold exactly one value raises
StoreCoefficients(coeffs, row, prefix, l, m) ==
    LET cs == Matching(row, CoeffKey(prefix, l, m, "C"))
        ss == Matching(row, CoeffKey(prefix, l, m, "S"))
    IN  IF Cardinality(cs) # 1 THEN coeffs
        ELSE LET c1 == [coeffs EXCEPT
                           ![<<0, l, m>>] = F32FromInt(row[CHOOSE f \in cs : TRUE])]
             IN  IF Cardinality(ss) # 1 THEN c1
                 ELSE [c1 EXCEPT
                          ![<<1, l, m>>] = F32FromInt(row[CHOOSE f \in ss : TRUE])]

RECURSIVE FillMatrix(_, _, _, _, _)
FillMatrix(coeffs, row, prefix, pairs, i) ==
    IF i > Len(pairs) THEN coeffs
    ELSE FillMatrix(StoreCoefficients(coeffs, row, prefix, pairs[i][1], pairs[i][2]),
                    row, prefix, pairs, i + 1)

F32Abs(x) == [x EXCEPT !.neg = FALSE]

\* the entries of the matrix in C order
Flatten(coeffs, lmax) ==
    LET n == lmax * lmax
    IN  SeqMap(LAMBDA i : coeffs[<<(i - 1) \div n, ((i - 1) % n) \div lmax, (i - 1) % lmax>>],
               Indices(2 * n))

\* coeffs.sum(), a variant without the absolute value
PlainSum(coeffs, lmax) == F32Sum(Flatten(coeffs, lmax))

\* np.abs(coeffs).sum()
AbsSum(coeffs, lmax) == F32Sum(SeqMap(F32Abs, Flatten(coeffs, lmax)))

\* bool(x) of a float32 scalar
F32Truthy(x) == ~(x.kind = "fin" /\ x.m = 0)

get_shcoeff_matrix_from_dataframe(row, prefix, lmax) ==
    LET coeffs == FillMatrix(ZeroMatrix(lmax), row, prefix, DegreeOrderPairs(lmax), 1)
    IN  IF ~F32Truthy(AbsSum(coeffs, lmax))
        THEN [status |-> "Exception", message |-> "No coefficients found"]
        ELSE [status |-> "ok", coeffs |-> coeffs]

\* [status, mesh, reconstructed]: reconstructed lists the matrices handed to
\* shtools.get_reconstruction_from_coeffs, whose mesh is identified here by
\* the matrix it was reconstructed from
get_mesh_from_dataframe(row, prefix, lmax) ==
    LET c == get_shcoeff_matrix_from_dataframe(row, prefix, lmax)
    IN  IF c.status # "ok"
        THEN [status |-> c.status, message |-> c.message, reconstructed |-> <<>>]
        ELSE [status |-> "ok", mesh |-> [coeffs |-> c.coeffs],
              reconstructed |-> <<c.coeffs>>]

\* ------------------------------------------------------------------------
\* find_plane_mesh_intersection
\* A point is a triple of integer coordinates indexed 1..3 for the axes
\* 0..2; proj is a pair of axes.
\* ------------------------------------------------------------------------
\* [a for a in [0, 1, 2] if a not in proj][0]
OrthogonalAxis(proj) ==
    CHOOSE a \in 0..2 :
        /\ a # proj[1] /\ a # proj[2]
        /\ \A b \in 0..(a - 1) : b = proj[1] \/ b = proj[2]

\* points[:, ax] as float32
AxisColumn(points, ax) == SeqMap(LAMBDA p : F32FromInt(p[ax + 1]), points)

\* points[:, ax].sum(), a variant without the absolute value
AxisPlainSum(points, ax) == F32Sum(AxisColumn(points, ax))

\* np.abs(points[:, ax]).sum()
AxisAbsSum(points, ax) == F32Sum(SeqMap(F32Abs, AxisColumn(points, ax)))

\* np.mean(points[:, ax]) + 0.75
PlaneLevel(points, ax) ==
    F32Add(F32Mean(AxisColumn(points, ax)), F32Div(F32FromInt(3), F32FromInt(4)))

\* points[:, proj]
Projected(points, proj) ==
    SeqMap(LAMBDA p : <<p[proj[1] + 1], p[proj[2] + 1]>>, points)

RECURSIVE SumPairsFrom(_, _, _)
SumPairsFrom(coords, i, acc) ==
    IF i > Len(coords) THEN acc
    ELSE SumPairsFrom(coords, i + 1, <<acc[1] + coords[i][1], acc[2] + coords[i][2]>>)

\* len(coords) * (coord - center), center being the mean of the coords;
\* a point at the centre has atan2(0, 0) = 0, the angle of direction (1, 0)
FromCenter(coords, i) ==
    LET total == SumPairsFrom(coords, 1, <<0, 0>>)
        d     == <<Len(coords) * coords[i][1] - total[1],
                   Len(coords) * coords[i][2] - total[2]>>
    IN  IF d = <<0, 0>> THEN <<1, 0>> ELSE d

Cross(u, v) == u[1] * v[2] - u[2] * v[1]

\* where the key (-135 - degrees(atan2(dy, dx))) % 360 of direction d lies:
\* 0 for key 0, 1 inside (0, 180), 2 for key 180, 3 inside (180, 360);
\* the key is the clockwise angle from direction (-1, -1) to d
KeyRange(d) ==
    LET c == Cross(<<-1, -1>>, d)
    IN  IF c < 0 THEN 1
        ELSE IF c > 0 THEN 3
        ELSE IF -d[1] - d[2] > 0 THEN 0 ELSE 2

\* key(d1) < key(d2), a variant with the counter-clockwise angle as key
KeyLessCounterClockwise(d1, d2) ==
    IF KeyRange(d1) # KeyRange(d2)
    THEN KeyRange(d1) = 0 \/ (KeyRange(d2) # 0 /\ KeyRange(d1) > KeyRange(d2))
    ELSE KeyRange(d1) \in {1, 3} /\ Cross(d1, d2) > 0

\* key(d1) < key(d2)
KeyLess(d1, d2) ==
    IF KeyRange(d1) # KeyRange(d2) THEN KeyRange(d1) < KeyRange(d2)
    ELSE KeyRange(d1) \in {1, 3} /\ Cross(d1, d2) < 0

\* sorted(coords, key=...): stable, ascending in the key; order lists the
\* positions of coords sorted so far, i is the next one to insert
\* a variant that puts a point before the points of equal key
RECURSIVE InsertBeforeEqualKeys(_, _, _)
InsertBeforeEqualKeys(coords, order, i) ==
    IF order = <<>> THEN <<i>>
    ELSE IF ~KeyLess(FromCenter(coords, order[Len(order)]), FromCenter(coords, i))
         THEN InsertBeforeEqualKeys(coords, SubSeq(order, 1, Len(order) - 1), i)
                  \o <<order[Len(order)]>>
         ELSE order \o <<i>>

\* sorted() is stable: point i goes behind the points of smaller or equal key
RECURSIVE InsertByKey(_, _, _)
InsertByKey(coords, order, i) ==
    IF order = <<>> THEN <<i>>
    ELSE IF KeyLess(FromCenter(coords, i), FromCenter(coords, order[Len(order)]))
         THEN InsertByKey(coords, SubSeq(order, 1, Len(order) - 1), i)
                  \o <<order[Len(order)]>>
         ELSE order \o <<i>>

RECURSIVE SortedOrderFrom(_, _, _)
SortedOrderFrom(coords, order, i) ==
    IF i > Len(coords) THEN order
    ELSE SortedOrderFrom(coords, InsertByKey(coords, order, i), i + 1)

SortedOrder(coords) == SortedOrderFrom(coords, <<>>, 1)

\* points[:, proj] = coords: the two projected columns take the sorted
\* coordinates, the column of the orthogonal axis stays as it was
StoreSorted(points, proj, order) ==
    SeqMap(LAMBDA i : [a \in 1..3 |->
                          IF a = proj[1] + 1 \/ a = proj[2] + 1
                          THEN points[order[i]][a] ELSE points[i][a]],
           Indices(Len(points)))

\* intersection: the points the vtk intersection filter returns for the
\* mesh and the plane; [status, points, vtk]: vtk lists the vtk filters run
find_plane_mesh_intersection(proj, mesh_points, intersection) ==
    LET ax == OrthogonalAxis(proj)
    IN  IF ~F32Truthy(AxisAbsSum(mesh_points, ax))
        THEN [status |-> "Exception", message |-> "Only zeros found in the plane axis.",
              vtk |-> <<>>]
        ELSE LET ran == << [filter |-> "vtkPlaneSource", axis |-> ax,
                            level |-> PlaneLevel(mesh_points, ax)],
                           [filter |-> "vtkTriangleFilter"],
                           [filter |-> "vtkIntersectionPolyDataFilter"] >>
             IN  IF intersection = <<>>
                 THEN [status |-> "TypeError", message |-> "reduce() of empty sequence",
                       vtk |-> ran]
                 ELSE [status |-> "ok",
                       points |-> StoreSorted(intersection, proj,
                                              SortedOrder(Projected(intersection, proj))),
                       vtk |-> ran]

\* ------------------------------------------------------------------------
\* get_shcoeffs_from_pc_coords
\* The fitted model pca is [n_components, components, mean, feature_names]:
\* inverse_transform maps a row x of PC coordinates to
\* mean + x . components.  Coordinates, components and means are integers
\* small enough for every float64 product and sum to be exact.
\* ------------------------------------------------------------------------
\* the value a float32 array entry holds after an integer is stored in it
Float32Value(k) ==
    LET x == F32FromInt(k)
        mag == IF x.e >= 0 THEN x.m * 2^(x.e) ELSE x.m \div 2^(-x.e)
    IN  IF x.neg THEN -mag ELSE mag

\* a variant that stores the coordinates in the first component
PcCoordsFirstComponent(coords, col, n_components) ==
    [i \in DOMAIN coords |->
        [k \in 1..n_components |-> IF k = 1 THEN Float32Value(coords[i]) ELSE 0]]

\* lines 483-485: a float32 matrix of zeros with coords in column col
PcCoords(coords, col, n_components) ==
    [i \in DOMAIN coords |->
        [k \in 1..n_components |-> IF k = col + 1 THEN Float32Value(coords[i]) ELSE 0]]

RECURSIVE DotFrom(_, _, _, _)
DotFrom(x, components, j, k) ==
    IF k > Len(x) THEN 0
    ELSE x[k] * components[k][j] + DotFrom(x, components, j, k + 1)

\* pca.get_pca().inverse_transform(x) for one row x
InverseTransform(pca, x) ==
    [j \in DOMAIN pca.mean |-> pca.mean[j] + DotFrom(x, pca.components, j, 1)]

\* the returned frame as [status, index, columns, values]; a negative pc
\* counts columns from the last one, as numpy indexing does
get_shcoeffs_from_pc_coords(coords, pc, pca) ==
    LET npts == Len(coords)
        col  == IF pc < 0 THEN pc + pca.n_components ELSE pc
    IN  IF col < 0 \/ col >= pca.n_components THEN [status |-> "IndexError"]
        ELSE LET pc_coords == PcCoords(coords, col, pca.n_components)
             IN  [status  |-> "ok",
                  values  |-> [i \in 1..npts |-> InverseTransform(pca, pc_coords[i])],
                  columns |-> pca.feature_names,
                  index   |-> [i \in 1..npts |-> i]]

\* ------------------------------------------------------------------------
\* Shape-mode calls: one call of the percentile filter, or of the
\* digitizer, on a frame of cells with the integer features pc1 and pc2.
\* ------------------------------------------------------------------------
MaxCells == 6

MaxBins == 5

CellTypes ==
    << [pc1 |-> 0, pc2 |-> 0, structure_name |-> "NPM1"],
       [pc1 |-> 1, pc2 |-> 2, structure_name |-> "LMNB1"],
       [pc1 |-> 3, pc2 |-> 0, structure_name |-> "NPM1"],
       [pc1 |-> 1, pc2 |-> 0, structure_name |-> "LMNB1"] >>

\* frames of 1..MaxCells cells of the first ntypes types, in that order
FramesOf(ntypes) ==
    LET picks == UNION {[1..n -> 1..ntypes] : n \in 1..MaxCells}
        sorted == {p \in picks : \A i \in 1..(Len(p) - 1) : p[i] <= p[i + 1]}
    IN  {[i \in DOMAIN p |->
            [id |-> i, pc1 |-> CellTypes[p[i]].pc1, pc2 |-> CellTypes[p[i]].pc2,
             structure_name |-> CellTypes[p[i]].structure_name]] :
         p \in sorted}

Frames == FramesOf(4)

DigitizeFrames == FramesOf(3)

PctValues == {-5, 0, 10, 25, 40, 50, 75, 105}

FeatureLists ==
    {<<"pc1">>, <<"pc2">>, <<"pc1", "pc2">>, <<"pc2", "pc1">>, <<"pc3">>, <<"pc1", "pc3">>}

ShapeModeIdle ==
    caller_df = <<>> /\ call = [op |-> "none"] /\ ret = NoResult /\ ret_again = NoResult

CoeffsIdle ==
    mesh_call = [op |-> "none"] /\ mesh_ret = NoResult /\ shtools_calls = <<>>

PlaneIdle ==
    /\ plane_call = [op |-> "none"] /\ plane_ret = NoResult /\ vtk_calls = <<>>
    /\ plane_ret_again = NoResult

AggIdle ==
    /\ agg_call = [op |-> "none"]
    /\ agg = [pc |-> "idle"]
    /\ agg_fs = {}
    /\ agg_jobs = {}

AnimIdle ==
    anim_call = [op |-> "none"] /\ anim = [pc |-> "idle"] /\ anim_files = <<>>

PlotIdle ==
    plot_figs = <<>> /\ plot_self = <<>> /\ plot_calls = <<>> /\ plot_log = <<>>

OthersIdleForShapeMode == CoeffsIdle /\ PlaneIdle /\ AggIdle /\ AnimIdle /\ PlotIdle

InitFilter ==
    /\ OthersIdleForShapeMode
    /\ caller_df \in Frames
    /\ call \in [op : {"filter"}, df : {caller_df}, features : FeatureLists,
                 pct : PctValues]
    /\ ret = NoResult
    /\ ret_again = NoResult

\* the caller runs filter_extremes_based_on_percentile(df, features, pct)
CallFilter ==
    /\ call.op = "filter"
    /\ ret = NoResult
    /\ \E r \in {filter_extremes_based_on_percentile(call.df, call.features, call.pct)} :
           /\ ret' = [status |-> r.status, df |-> r.df]
           /\ caller_df' = r.caller
    /\ UNCHANGED <<call, ret_again, coeffVars, planeVars, aggVars, animVars, plotVars>>

DigitizeCalls(df) ==
    [op : {"digitize"}, df : {df}, feature : {"pc1", "pc3"}, nbins : (-1)..MaxBins,
     filter_based_on : {<<"pc1">>, <<"pc1", "pc2">>, <<"pc3">>}, pct : {0, 25},
     return_freqs_per_structs : BOOLEAN]

InitDigitize ==
    /\ OthersIdleForShapeMode
    /\ caller_df \in DigitizeFrames
    /\ call \in DigitizeCalls(caller_df)
    /\ ret = NoResult
    /\ ret_again = NoResult

\* the caller runs digitize_shape_mode(df, feature, nbins, filter_based_on, pct)
CallDigitize ==
    /\ call.op = "digitize"
    /\ ret = NoResult
    /\ \E r \in {digitize_shape_mode(call.df, call.feature, call.nbins,
                                       call.filter_based_on, call.pct,
                                       call.return_freqs_per_structs)} :
           /\ ret' = [k \in DOMAIN r \ {"caller"} |-> r[k]]
           /\ caller_df' = r.caller
    /\ UNCHANGED <<call, ret_again, coeffVars, planeVars, aggVars, animVars, plotVars>>

\* the caller repeats the call with the same arguments on the frame it
\* holds, which is the frame as the first call left it
CallDigitizeAgain ==
    /\ call.op = "digitize"
    /\ ret # NoResult
    /\ ret_again = NoResult
    /\ \E r \in {digitize_shape_mode(caller_df, call.feature, call.nbins,
                                       call.filter_based_on, call.pct,
                                       call.return_freqs_per_structs)} :
           /\ ret_again' = [k \in DOMAIN r \ {"caller"} |-> r[k]]
           /\ caller_df' = r.caller
    /\ UNCHANGED <<call, ret, coeffVars, planeVars, aggVars, animVars, plotVars>>

\* ------------------------------------------------------------------------
\* Coefficient calls: one call of get_shcoeff_matrix_from_dataframe or of
\* get_mesh_from_dataframe on a row of coefficient fields.
\* ------------------------------------------------------------------------
MaxLmax == 2

\* fields of the nucleus: N_L0M0C, N_L0M0S, N_L1M1C, N_L1M1S
NucleusFields ==
    { <<"N", "_", "L", "0", "M", "0", "C">>, <<"N", "_", "L", "0", "M", "0", "S">>,
      <<"N", "_", "L", "1", "M", "1", "C">>, <<"N", "_", "L", "1", "M", "1", "S">> }

\* a field of the membrane, with a suffix: M_L0M0C_r
MembraneField == <<"M", "_", "L", "0", "M", "0", "C", "_", "r">>

\* prefixes N_L (one entity), L (both entities) and X_L (no field)
Prefixes == { <<"N", "_", "L">>, <<"L">>, <<"X", "_", "L">> }

\* field values; the last one is not a float32 number
CoeffValues == {0, 1, -1, 16777217}

Rows ==
    LET nucleus == UNION {[S -> CoeffValues] : S \in SUBSET NucleusFields}
    IN  nucleus \cup
        {[f \in DOMAIN r \cup {MembraneField} |->
             IF f = MembraneField THEN 1 ELSE r[f]] : r \in nucleus}

InitCoeffs ==
    /\ ShapeModeIdle /\ PlaneIdle /\ AggIdle /\ AnimIdle /\ PlotIdle
    /\ mesh_call \in [op : {"coeffs", "mesh"}, row : Rows, prefix : Prefixes,
                      lmax : 1..MaxLmax]
    /\ mesh_ret = NoResult
    /\ shtools_calls = <<>>

\* the caller runs get_shcoeff_matrix_from_dataframe(row, prefix, lmax)
CallGetShcoeffMatrix ==
    /\ mesh_call.op = "coeffs"
    /\ mesh_ret = NoResult
    /\ mesh_ret' = get_shcoeff_matrix_from_dataframe(mesh_call.row, mesh_call.prefix,
                                                     mesh_call.lmax)
    /\ UNCHANGED <<mesh_call, shtools_calls, shapeVars, planeVars, aggVars, animVars, plotVars>>

\* the caller runs get_mesh_from_dataframe(row, prefix, lmax)
CallGetMesh ==
    /\ mesh_call.op = "mesh"
    /\ mesh_ret = NoResult
    /\ \E r \in {get_mesh_from_dataframe(mesh_call.row, mesh_call.prefix,
                                          mesh_call.lmax)} :
           /\ mesh_ret' = [k \in DOMAIN r \ {"reconstructed"} |-> r[k]]
           /\ shtools_calls' = shtools_calls \o r.reconstructed
    /\ UNCHANGED <<mesh_call, shapeVars, planeVars, aggVars, animVars, plotVars>>

\* ------------------------------------------------------------------------
\* Contour calls: one call of find_plane_mesh_intersection on a mesh given
\* by its points, with the points the vtk intersection filter returns.
\* ------------------------------------------------------------------------
MaxMeshPoints == 2

MaxContour == 3

Projections == {<<0, 1>>, <<0, 2>>, <<1, 2>>}

MeshPointChoices == {<<0, 0, 0>>, <<1, 0, -1>>, <<-1, 1, 1>>}

\* in-plane coordinates of the points of an intersection
ContourCoords == {<<-1, -1>>, <<1, 0>>, <<2, 0>>, <<0, 1>>, <<0, 0>>}

SeqsUpTo(S, lo, hi) == UNION {[1..n -> S] : n \in lo..hi}

\* in-plane coordinates placed in space on the plane orthogonal to ax
OnPlane(coords, proj) ==
    SeqMap(LAMBDA c : [a \in 1..3 |->
                          IF a = proj[1] + 1 THEN c[1]
                          ELSE IF a = proj[2] + 1 THEN c[2] ELSE 1],
           coords)

InitPlane ==
    /\ ShapeModeIdle /\ CoeffsIdle /\ AggIdle /\ AnimIdle /\ PlotIdle
    /\ \E proj \in Projections, coords \in SeqsUpTo(ContourCoords, 0, MaxContour) :
          plane_call \in [op : {"intersect"}, proj : {proj},
                          mesh : SeqsUpTo(MeshPointChoices, 1, MaxMeshPoints),
                          intersection : {OnPlane(coords, proj)}]
    /\ plane_ret = NoResult
    /\ plane_ret_again = NoResult
    /\ vtk_calls = <<>>

\* the caller runs find_plane_mesh_intersection(proj, mesh)
CallFindPlaneMeshIntersection ==
    /\ plane_call.op = "intersect"
    /\ plane_ret = NoResult
    /\ \E r \in {find_plane_mesh_intersection(plane_call.proj, plane_call.mesh,
                                               plane_call.intersection)} :
           /\ plane_ret' = [k \in DOMAIN r \ {"vtk"} |-> r[k]]
           /\ vtk_calls' = vtk_calls \o r.vtk
    /\ UNCHANGED <<plane_call, plane_ret_again, shapeVars, coeffVars, aggVars, animVars, plotVars>>

\* the caller repeats the call on the same mesh and projection; the mesh is
\* only read by the call, so vtk cuts it as before
CallFindPlaneMeshIntersectionAgain ==
    /\ plane_call.op = "intersect"
    /\ plane_ret # NoResult
    /\ plane_ret_again = NoResult
    /\ \E r \in {find_plane_mesh_intersection(plane_call.proj, plane_call.mesh,
                                               plane_call.intersection)} :
           /\ plane_ret_again' = [k \in DOMAIN r \ {"vtk"} |-> r[k]]
           /\ vtk_calls' = vtk_calls \o r.vtk
    /\ UNCHANGED <<plane_call, plane_ret, shapeVars, coeffVars, aggVars, animVars, plotVars>>

\* ------------------------------------------------------------------------
\* Aggregation.run
\* The bin table df_agg is a sequence of rows, one per bin.  AggregatorNew
\* and the distributed provider are collaborators outside this source
\* tree: aggregate, morph_on_shapemode_shape and save are calls that either
\* succeed or raise for a row, save writes the artifact of the row and
\* returns its path, and the provider runs one job per handed row.
\* ------------------------------------------------------------------------
MaxAggRows == 3

NaN == <<"NaN">>

\* df.loc[i, col] = v: a new column is NaN in the other rows
SetLoc(df, i, col, v) ==
    [j \in DOMAIN df |->
        IF j = i THEN SetCol(df[j], col, v)
        ELSE IF col \in DOMAIN df[j] THEN df[j] ELSE SetCol(df[j], col, NaN)]

\* the path ag.save() returns for a row
ArtifactPath(row) == <<"aggregations", row.bin>>

ParamManifest == <<"parameterization", "manifest.csv">>

ShapemodeManifest == <<"shapemode", "manifest.csv">>

WorkerManifest == <<".distribute", "manifest.csv">>

AggDir == <<"aggregations">>

\* a variant of the loop body that saves before it aggregates
StepsSaveFirst == <<"save", "aggregate", "morph_on_shapemode_shape">>

\* lines 99-101: the steps of AggregatorNew on one row, in call order
AggregatorSteps == <<"aggregate", "morph_on_shapemode_shape", "save">>

\* the calls made on the aggregator for a row; the one that raises is the last
CallsFor(row) ==
    LET n == IF row.fails = "none" THEN 3
             ELSE CHOOSE k \in 1..3 : AggregatorSteps[k] = row.fails
    IN  SeqMap(LAMBDA k : <<AggregatorSteps[k], row.bin>>, Indices(n))

\* bin tables of 1..MaxAggRows rows, bins numbered in table order
BinTables ==
    UNION {[1..n -> {"none", "aggregate", "morph_on_shapemode_shape", "save"}] :
           n \in 1..MaxAggRows}

InitAgg ==
    /\ ShapeModeIdle /\ CoeffsIdle /\ PlaneIdle /\ AnimIdle /\ PlotIdle
    /\ \E t \in BinTables, d, o \in BOOLEAN, present \in SUBSET {ParamManifest, ShapemodeManifest},
          old \in BOOLEAN :
          /\ agg_call = [op |-> "run", distribute |-> d, overwrite |-> o,
                         rows |-> [i \in DOMAIN t |-> [bin |-> i, fails |-> t[i]]]]
          /\ agg_fs = present \cup
                      (IF old THEN {AggDir} \cup {<<"aggregations", i>> : i \in DOMAIN t}
                       ELSE {})
    /\ agg = [pc |-> "start"]
    /\ agg_jobs = {}

\* the manifests in the order a variant would check them, shape modes first
ManifestsShapemodeFirst == <<ShapemodeManifest, ParamManifest>>

\* lines 39 and 46: the manifests in the order run checks them
RequiredManifests == <<ParamManifest, ShapemodeManifest>>

\* lines 40 and 47: the first required manifest that does not exist, as a
\* sequence of at most one path
MissingManifest(fs) ==
    LET missing == {k \in DOMAIN RequiredManifests : RequiredManifests[k] \notin fs}
    IN  IF missing = {} THEN <<>>
        ELSE <<RequiredManifests[CHOOSE k \in missing : \A j \in missing : k <= j]>>

\* lines 36-70: the manifests are checked and read, the output directory is
\* made and the bin table is created
RunPrologue ==
    /\ agg.pc = "start"
    /\ IF MissingManifest(agg_fs) # <<>>
       THEN /\ agg' = [pc |-> "raised", error |-> "FileNotFoundError",
                       file |-> MissingManifest(agg_fs)[1], calls |-> <<>>]
            /\ UNCHANGED agg_fs
       ELSE /\ agg_fs' = agg_fs \cup {AggDir}
            /\ agg' = [pc |-> "branch", i |-> 1, calls |-> <<>>,
                       df_agg |-> SeqMap(LAMBDA r : [bin |-> r.bin], agg_call.rows)]
    /\ UNCHANGED <<agg_call, agg_jobs, shapeVars, coeffVars, planeVars, animVars, plotVars>>

\* lines 72-88: the frame is saved for the workers, the work is handed to
\* the distributed provider and run returns
RunDistribute ==
    /\ agg.pc = "branch"
    /\ agg_call.distribute
    /\ agg_fs' = agg_fs \cup {WorkerManifest}
    /\ agg_jobs' = {agg_call.rows[i].bin : i \in DOMAIN agg_call.rows}
    /\ agg' = [agg EXCEPT !.pc = "returned",
                          !.calls = Append(agg.calls, <<"distribute">>)]
    /\ UNCHANGED <<agg_call, shapeVars, coeffVars, planeVars, animVars, plotVars>>

\* lines 98-101: one iteration of the loop over the bin table
RunAggregateRow ==
    /\ agg.pc = "branch"
    /\ ~agg_call.distribute
    /\ agg.i <= Len(agg.df_agg)
    /\ LET row == agg_call.rows[agg.i]
       IN  IF row.fails # "none"
           THEN /\ agg' = [agg EXCEPT !.pc = "raised",
                                      !.calls = agg.calls \o CallsFor(row)]
                /\ UNCHANGED agg_fs
           ELSE /\ agg' = [agg EXCEPT !.i = agg.i + 1,
                                      !.calls = agg.calls \o CallsFor(row),
                                      !.df_agg = SetLoc(agg.df_agg, agg.i, "FilePath",
                                                        ArtifactPath(row))]
                /\ agg_fs' = agg_fs \cup {ArtifactPath(row)}
    /\ UNCHANGED <<agg_call, agg_jobs, shapeVars, coeffVars, planeVars, animVars, plotVars>>

\* line 130: the loop is over and run returns
RunReturn ==
    /\ agg.pc = "branch"
    /\ ~agg_call.distribute
    /\ agg.i > Len(agg.df_agg)
    /\ agg' = [agg EXCEPT !.pc = "returned"]
    /\ UNCHANGED <<agg_call, agg_fs, agg_jobs, shapeVars, coeffVars, planeVars, animVars, plotVars>>

\* a worker of the distributed provider runs the job of bin b: the same
\* aggregator steps on that row, the artifact saved when none of them raises
WorkerRun(b) ==
    /\ b \in agg_jobs
    /\ agg_jobs' = agg_jobs \ {b}
    /\ LET row == agg_call.rows[CHOOSE i \in DOMAIN agg_call.rows :
                                    agg_call.rows[i].bin = b]
       IN  agg_fs' = IF row.fails = "none" THEN agg_fs \cup {ArtifactPath(row)}
                     ELSE agg_fs
    /\ UNCHANGED <<agg_call, agg, shapeVars, coeffVars, planeVars, animVars, plotVars>>

\* ------------------------------------------------------------------------
\* animate_shape_modes_and_save_meshes, get_contours_of_consecutive_
\* reconstructions, transform_coords_to_mem_space
\* A row of df_agg carries its index label in "bin" and, in "mem" and
\* "dna", the kind of mesh its coefficients of that prefix reconstruct to.
\* ------------------------------------------------------------------------
\* np.cos and np.sin of np.pi * angle / 180.0 in float64, for the alignment
\* angles of the model (in degrees)
Angles == {0, 45, 60, -60}

CosDeg(angle) ==
    CASE angle = 0 -> F64FromInt(1)
      [] angle = 45 -> F64(FALSE, <<489888, 838910, 185363, 0>>)
      [] angle = 60 -> F64(FALSE, <<32, 0, 131072, 0>>)
      [] angle = -60 -> F64(FALSE, <<32, 0, 131072, 0>>)

SinDeg(angle) ==
    CASE angle = 0 -> F64FromInt(0)
      [] angle = 45 -> F64(FALSE, <<489856, 838910, 185363, 0>>)
      [] angle = 60 -> F64(FALSE, <<628032, 381104, 227023, 0>>)
      [] angle = -60 -> F64(TRUE, <<628032, 381104, 227023, 0>>)

\* rot_mx of lines 529-535, row by row
RotMx(angle) ==
    << <<CosDeg(angle), SinDeg(angle), F64FromInt(0)>>,
       <<F64Neg(SinDeg(angle)), CosDeg(angle), F64FromInt(0)>>,
       <<F64FromInt(0), F64FromInt(0), F64FromInt(1)>> >>

\* np.matmul(m, v) of a 3x3 matrix and a vector of integers: each product
\* is rounded, the products of a row are added from left to right
MatMul(m, v) ==
    [r \in 1..3 |->
        F64Add(F64Add(F64Times(m[r][1], v[1]), F64Times(m[r][2], v[2])),
               F64Times(m[r][3], v[3]))]

\* a variant that rotates the point first and subtracts the centroid after
TransformRotateFirst(xo, yo, zo, angle, cm) ==
    LET p == MatMul(RotMx(angle), <<xo, yo, zo>>)
    IN  [k \in 1..3 |-> F64Sub(p[k], F64FromInt(cm[k]))]

transform_coords_to_mem_space(xo, yo, zo, angle, cm) ==
    MatMul(RotMx(angle), <<xo - cm[1], yo - cm[2], zo - cm[3]>>)

\* lines 589-606
process_this_index(row) ==
    transform_coords_to_mem_space(row.dna_position[1], row.dna_position[2],
                                  row.dna_position[3], row.angle, row.mem_position)

\* np.array(nuclei_cm_fix[0]).mean(axis=0), in float64
MeanOffset(fixes) ==
    [k \in 1..3 |->
        F64DivInt(F64SumFrom(SeqMap(LAMBDA f : f[k], fixes), 1, F64FromInt(0)),
                  Len(fixes))]

OffsetColumns == <<"dna_dxc", "dna_dyc", "dna_dzc">>

\* df.loc[b, col] = v by index label; an unknown label enlarges the frame
SetLocLabel(df, b, col, v) ==
    IF \E i \in DOMAIN df : df[i]["bin"] = b
    THEN SetLoc(df, CHOOSE i \in DOMAIN df : df[i]["bin"] = b, col, v)
    ELSE LET old == SeqMap(LAMBDA r : IF col \in DOMAIN r THEN r ELSE SetCol(r, col, NaN), df)
             new == [c \in Columns(old) \cup {"bin", col} |->
                        IF c = "bin" THEN b ELSE IF c = col THEN v ELSE NaN]
         IN  Append(old, new)

\* a variant that averages over all cells of df for every bin
RECURSIVE StoreOffsetsOverAllCells(_, _, _, _, _)
StoreOffsetsOverAllCells(df_agg, df, bin_indexes, k, fix_nuclear_position) ==
    IF k > Len(bin_indexes) THEN df_agg
    ELSE LET b      == bin_indexes[k][1]
             offset == IF fix_nuclear_position
                       THEN MeanOffset(SeqMap(process_this_index, df))
                       ELSE [c \in 1..3 |-> 0]
             d1 == SetLocLabel(df_agg, b, OffsetColumns[1], offset[1])
             d2 == SetLocLabel(d1, b, OffsetColumns[2], offset[2])
             d3 == SetLocLabel(d2, b, OffsetColumns[3], offset[3])
         IN  StoreOffsetsOverAllCells(d3, df, bin_indexes, k + 1, fix_nuclear_position)

\* lines 611-636: the offsets of every bin of bin_indexes are stored in df_agg
RECURSIVE StoreOffsets(_, _, _, _, _)
StoreOffsets(df_agg, df, bin_indexes, k, fix_nuclear_position) ==
    IF k > Len(bin_indexes) THEN df_agg
    ELSE LET b       == bin_indexes[k][1]
             indexes == bin_indexes[k][2]
             df_tmp  == SelectRows(df, SeqMap(LAMBDA r : \E j \in DOMAIN indexes :
                                                             indexes[j] = r.id, df))
             offset  == IF fix_nuclear_position
                        THEN MeanOffset(SeqMap(process_this_index, df_tmp))
                        ELSE [c \in 1..3 |-> 0]
             d1 == SetLocLabel(df_agg, b, OffsetColumns[1], offset[1])
             d2 == SetLocLabel(d1, b, OffsetColumns[2], offset[2])
             d3 == SetLocLabel(d2, b, OffsetColumns[3], offset[3])
         IN  StoreOffsets(d3, df, bin_indexes, k + 1, fix_nuclear_position)

\* the points of the mesh shtools reconstructs, by kind: "solid" has points
\* off every coordinate plane, "flat0", "flat1" and "flat2" lie in the plane
\* where coordinate 0, 1 or 2 vanishes
MeshPoints(kind) ==
    CASE kind = "solid" -> <<<<1, 1, 1>>, <<-1, -1, -1>>, <<1, -1, 2>>>>
      [] kind = "flat0" -> <<<<0, 1, 1>>, <<0, -1, -1>>>>
      [] kind = "flat1" -> <<<<1, 0, 1>>, <<-1, 0, -1>>>>
      [] kind = "flat2" -> <<<<1, 1, 0>>, <<-1, -1, 0>>>>

MeshKinds == <<"solid", "flat0", "flat1", "flat2">>

ProjectionList == <<(<<0, 1>>), (<<0, 2>>), (<<1, 2>>)>>

\* what the vtk intersection filter returns for a mesh cut along proj
VtkIntersection(proj) == OnPlane(<<<<1, 0>>, <<0, 1>>, <<-1, -1>>>>, proj)

\* find_plane_mesh_intersection(proj, mesh) for every projection and every
\* kind of mesh, evaluated once
MeshCuts ==
    SeqMap(LAMBDA p :
              SeqMap(LAMBDA kind :
                        find_plane_mesh_intersection(ProjectionList[p], MeshPoints(kind),
                                                     VtkIntersection(ProjectionList[p])),
                     MeshKinds),
           Indices(3))

MeshCut(proj, kind) ==
    MeshCuts[CHOOSE p \in 1..3 : ProjectionList[p] = proj]
            [CHOOSE k \in DOMAIN MeshKinds : MeshKinds[k] = kind]

RECURSIVE MinOf(_)
MinOf(s) == IF Len(s) = 1 THEN s[1]
            ELSE LET m == MinOf(Tail(s)) IN IF s[1] < m THEN s[1] ELSE m

RECURSIVE MaxOf(_)
MaxOf(s) == IF Len(s) = 1 THEN s[1]
            ELSE LET m == MaxOf(Tail(s)) IN IF s[1] > m THEN s[1] ELSE m

\* mesh.GetBounds(): (xmin, xmax, ymin, ymax, zmin, zmax)
GetBounds(points) ==
    LET col(a) == SeqMap(LAMBDA p : p[a], points)
    IN  <<MinOf(col(1)), MaxOf(col(1)), MinOf(col(2)), MaxOf(col(2)),
          MinOf(col(3)), MaxOf(col(3))>>

\* a variant that puts the limits of each row in front of the list
RECURSIVE ContoursLimitsInFront(_, _, _, _, _)
ContoursLimitsInFront(df, entity, proj, i, acc) ==
    IF i > Len(df) THEN acc
    ELSE IF df[i][entity] = "none"
    THEN [status |-> "Exception", message |-> "No coefficients found", row |-> i]
    ELSE LET points == MeshPoints(df[i][entity])
             cut    == MeshCut(proj, df[i][entity])
         IN  IF cut.status # "ok"
             THEN [status |-> cut.status, message |-> cut.message, row |-> i]
             ELSE ContoursLimitsInFront(df, entity, proj, i + 1,
                     [acc EXCEPT
                        !.meshes = Append(@, [of |-> df[i]["bin"], entity |-> entity,
                                              points |-> points]),
                        !.limits = <<GetBounds(points)>> \o @,
                        !.contours = Append(@, [of |-> df[i]["bin"],
                                                points |-> cut.points])])

\* lines 428-448: acc holds the three lists built so far, i is the next row
RECURSIVE ContoursFrom(_, _, _, _, _)
ContoursFrom(df, entity, proj, i, acc) ==
    IF i > Len(df) THEN acc
    ELSE IF df[i][entity] = "none"
    THEN [status |-> "Exception", message |-> "No coefficients found", row |-> i]
    ELSE LET points == MeshPoints(df[i][entity])
             cut    == MeshCut(proj, df[i][entity])
         IN  IF cut.status # "ok"
             THEN [status |-> cut.status, message |-> cut.message, row |-> i]
             ELSE ContoursFrom(df, entity, proj, i + 1,
                     [acc EXCEPT
                        !.meshes = Append(@, [of |-> df[i]["bin"], entity |-> entity,
                                              points |-> points]),
                        !.limits = Append(@, GetBounds(points)),
                        !.contours = Append(@, [of |-> df[i]["bin"],
                                                points |-> cut.points])])

get_contours_of_consecutive_reconstructions(df, entity, proj) ==
    ContoursFrom(df, entity, proj, 1,
                 [status |-> "ok", contours |-> <<>>, meshes |-> <<>>, limits |-> <<>>])

\* f"{b:02d}"
TwoDigits(b) == IF b < 10 THEN <<"0">> \o Decimal(b) ELSE Decimal(b)

\* a variant of the file name without the bin
MeshFileNameWithoutBin(save, entity, feature, b) ==
    <<save, "/", entity, "_", feature, ".vtk">>

\* f"{save}/MEM_{feature}_{b:02d}.vtk" and f"{save}/DNA_{feature}_{b:02d}.vtk"
MeshFileName(save, entity, feature, b) ==
    <<save, "/", entity, "_", feature, "_">> \o TwoDigits(b) \o <<".vtk">>

\* lines 668-680: the k-th step of the zip over bin_indexes, mem_meshes and
\* dna_meshes shifts the nucleus mesh and writes both meshes
RECURSIVE SaveMeshesFrom(_, _, _, _, _, _, _, _)
SaveMeshesFrom(bin_indexes, mem_meshes, dna_meshes, df_agg, save, feature, k, files) ==
    IF k > Len(bin_indexes) \/ k > Len(mem_meshes) \/ k > Len(dna_meshes) THEN files
    ELSE LET b   == bin_indexes[k][1]
             row == df_agg[CHOOSE i \in DOMAIN df_agg : df_agg[i]["bin"] = b]
             dna == [of |-> dna_meshes[k].of, entity |-> "dna",
                     points |-> dna_meshes[k].points,
                     shift |-> SeqMap(LAMBDA c : row[c], OffsetColumns)]
         IN  SaveMeshesFrom(bin_indexes, mem_meshes, dna_meshes, df_agg, save, feature,
                            k + 1,
                            files \o << [name |-> MeshFileName(save, "MEM", feature, b),
                                         step |-> b, mesh |-> mem_meshes[k]],
                                        [name |-> MeshFileName(save, "DNA", feature, b),
                                         step |-> b, mesh |-> dna] >>)

\* ------------------------------------------------------------------------
\* Animation calls: one call of animate_shape_modes_and_save_meshes on a
\* frame of cells, a table of bins and the member lists of the bins that
\* have members.
\* ------------------------------------------------------------------------
MaxAnimBins == 3

MaxAnimCells == 2

\* the cells of df: cell i with its nuclear centroid, cell centroid and angle
AnimCell(i) ==
    [id |-> i, dna_position |-> <<i, 2, 1>>, mem_position |-> <<1, 1, 0>>,
     angle |-> IF i % 2 = 0 THEN 60 ELSE 0]

\* tables with the index labels of S, all meshes solid except at most one
\* of the given kind
AnimTables(S) ==
    LET labels == AscendingSeq(S)
        sound  == SeqMap(LAMBDA l : [bin |-> l, mem |-> "solid", dna |-> "solid"], labels)
    IN  {sound} \cup
        {[sound EXCEPT ![i] = SetCol(sound[i], d[1], d[2])] :
            i \in DOMAIN sound,
            d \in {<<"mem", "none">>, <<"mem", "flat2">>, <<"mem", "flat0">>,
                   <<"dna", "flat1">>}}

\* member lists for an assignment of the cells to bins (0: to no bin)
MemberLists(binOf) ==
    LET bins == AscendingSeq({binOf[c] : c \in DOMAIN binOf} \ {0})
    IN  SeqMap(LAMBDA b : <<b, AscendingSeq({c \in DOMAIN binOf : binOf[c] = b})>>, bins)

InitAnimate ==
    /\ ShapeModeIdle /\ CoeffsIdle /\ PlaneIdle /\ AggIdle /\ PlotIdle
    /\ \E S \in SUBSET (1..MaxAnimBins) \ {{}}, n \in 1..MaxAnimCells, fix \in BOOLEAN :
         \E t \in AnimTables(S), binOf \in [1..n -> S \cup {0}] :
            anim_call = [op |-> "animate", df |-> SeqMap(AnimCell, Indices(n)),
                         df_agg |-> t, bin_indexes |-> MemberLists(binOf),
                         feature |-> "PC1", save |-> "out",
                         fix_nuclear_position |-> fix]
    /\ anim = [pc |-> "offsets", df_agg |-> anim_call.df_agg]
    /\ anim_files = <<>>

\* lines 587-641: the nucleus offsets are stored in the caller's df_agg
AnimStoreOffsets ==
    /\ anim.pc = "offsets"
    /\ anim' = [pc |-> "mem", proj_id |-> 0,
                df_agg |-> StoreOffsets(anim.df_agg, anim_call.df, anim_call.bin_indexes,
                                        1, anim_call.fix_nuclear_position),
                all_mem_contours |-> <<>>, all_dna_contours |-> <<>>,
                hlimits |-> <<>>, vlimits |-> <<>>]
    /\ UNCHANGED <<anim_call, anim_files, shapeVars, coeffVars, planeVars, aggVars, plotVars>>

Raised(r) == [pc |-> "raised", error |-> r.status, message |-> r.message,
              proj_id |-> anim.proj_id, df_agg |-> anim.df_agg]

\* lines 649-654: contours and meshes of the membrane for this projection
AnimMemContours ==
    /\ anim.pc = "mem"
    /\ \E r \in {get_contours_of_consecutive_reconstructions(
                     anim.df_agg, "mem", ProjectionList[anim.proj_id + 1])} :
          anim' = IF r.status # "ok" THEN Raised(r)
                  ELSE [anim EXCEPT !.pc = "dna"] @@ [mem |-> r]
    /\ UNCHANGED <<anim_call, anim_files, shapeVars, coeffVars, planeVars, aggVars, plotVars>>

\* lines 657-662: contours and meshes of the nucleus for this projection
AnimDnaContours ==
    /\ anim.pc = "dna"
    /\ \E r \in {get_contours_of_consecutive_reconstructions(
                     anim.df_agg, "dna", ProjectionList[anim.proj_id + 1])} :
          anim' = IF r.status # "ok" THEN Raised(r)
                  ELSE [anim EXCEPT !.pc = "store"] @@ [dna |-> r]
    /\ UNCHANGED <<anim_call, anim_files, shapeVars, coeffVars, planeVars, aggVars, plotVars>>

\* lines 667-693: in the first projection the meshes are written; the
\* contours and the limits of this projection are kept
AnimStoreProjection ==
    /\ anim.pc = "store"
    /\ anim_files' =
          IF anim.proj_id = 0
          THEN SaveMeshesFrom(anim_call.bin_indexes, anim.mem.meshes, anim.dna.meshes,
                              anim.df_agg, anim_call.save, anim_call.feature, 1, anim_files)
          ELSE anim_files
    /\ LET lim(k) == SeqMap(LAMBDA b : b[k], anim.mem.limits)
           box    == <<MinOf(lim(1)), MaxOf(lim(2)), MinOf(lim(3)), MaxOf(lim(4)),
                       MinOf(lim(5)), MaxOf(lim(6))>>
           kept   == [c \in DOMAIN anim \ {"mem", "dna"} |-> anim[c]]
       IN  anim' = [kept EXCEPT
                      !.pc = IF anim.proj_id = 2 THEN "render" ELSE "mem",
                      !.proj_id = anim.proj_id + 1,
                      !.all_mem_contours = Append(@, anim.mem.contours),
                      !.all_dna_contours = Append(@, anim.dna.contours),
                      !.hlimits = @ \o SubSeq(box, 1, 4),
                      !.vlimits = @ \o SubSeq(box, 3, 6)]
    /\ UNCHANGED <<anim_call, shapeVars, coeffVars, planeVars, aggVars, plotVars>>

\* the frames of one animation: frame i draws contours i of both entities,
\* the nucleus moved by the offsets df_agg holds under label i + 1
AnimationFrames(mem_contours, dna_contours, df_agg, projection) ==
    SeqMap(LAMBDA k : [mem |-> mem_contours[k], dna |-> dna_contours[k],
                       offset_of |-> k,
                       offset |-> LET row == df_agg[CHOOSE i \in DOMAIN df_agg :
                                                       df_agg[i]["bin"] = k]
                                  IN  <<row[OffsetColumns[projection[1] + 1]],
                                        row[OffsetColumns[projection[2] + 1]]>>],
           Indices(Len(mem_contours)))

\* f"{save}/{feature}_{''.join(str(x) for x in projection)}.gif"
GifFileName(save, feature, projection) ==
    <<save, "/", feature, "_">> \o Decimal(projection[1]) \o Decimal(projection[2])
        \o <<".gif">>

\* lines 695-760: the three animations are rendered and saved; a frame
\* whose label or offset column is not in df_agg raises KeyError, in the
\* first animation
AnimRender ==
    /\ anim.pc = "render"
    /\ IF \/ OffsetColumns[1] \notin Columns(anim.df_agg)
          \/ \E k \in 1..Len(anim.all_mem_contours[1]) :
                \A i \in DOMAIN anim.df_agg : anim.df_agg[i]["bin"] # k
       THEN /\ anim' = [pc |-> "raised", error |-> "KeyError", message |-> "label",
                        proj_id |-> anim.proj_id, df_agg |-> anim.df_agg]
            /\ UNCHANGED anim_files
       ELSE /\ anim' = [pc |-> "returned", proj_id |-> anim.proj_id,
                        df_agg |-> anim.df_agg]
            /\ anim_files' = anim_files \o
                  SeqMap(LAMBDA p : [name |-> GifFileName(anim_call.save, anim_call.feature,
                                                          ProjectionList[p]),
                                     step |-> p,
                                     frames |-> AnimationFrames(anim.all_mem_contours[p],
                                                                anim.all_dna_contours[p],
                                                                anim.df_agg,
                                                                ProjectionList[p])],
                         Indices(3))
    /\ UNCHANGED <<anim_call, shapeVars, coeffVars, planeVars, aggVars, plotVars>>

\* ------------------------------------------------------------------------
\* Calls of get_shcoeffs_from_pc_coords on fitted models of one or two
\* components over two features.
\* ------------------------------------------------------------------------
MaxCoords == 2

PcCoordValues == {0, 1, -2, 16777217}

FeatureNames == <<"shcoeffs_L0M0C", "shcoeffs_L1M1S">>

PcaModels ==
    { [n_components |-> 1, components |-> <<<<1, 2>>>>,
       mean |-> <<0, 0>>, feature_names |-> FeatureNames],
      [n_components |-> 2, components |-> <<<<1, 2>>, <<0, 3>>>>,
       mean |-> <<5, -1>>, feature_names |-> FeatureNames],
      [n_components |-> 2, components |-> <<<<2, 0>>, <<-1, 1>>>>,
       mean |-> <<0, 4>>, feature_names |-> FeatureNames] }

InitPcCoords ==
    /\ ShapeModeIdle /\ PlaneIdle /\ AggIdle /\ AnimIdle /\ PlotIdle
    /\ mesh_call \in [op : {"pc_coords"}, coords : SeqsUpTo(PcCoordValues, 0, MaxCoords),
                      pc : (-1)..2, pca : PcaModels]
    /\ mesh_ret = NoResult
    /\ shtools_calls = <<>>

\* the caller runs get_shcoeffs_from_pc_coords(coords, pc, pca)
CallGetShcoeffsFromPcCoords ==
    /\ mesh_call.op = "pc_coords"
    /\ mesh_ret = NoResult
    /\ mesh_ret' = get_shcoeffs_from_pc_coords(mesh_call.coords, mesh_call.pc,
                                               mesh_call.pca)
    /\ UNCHANGED <<mesh_call, shtools_calls, shapeVars, planeVars, aggVars, animVars, plotVars>>

\* ------------------------------------------------------------------------
\* Calls of transform_coords_to_mem_space on points and centroids with small
\* integer coordinates.
\* ------------------------------------------------------------------------
PointValues == (-1)..1

Centroids == {<<0, 0, 0>>, <<1, -1, 1>>, <<-1, 2, 1>>}

InitTransform ==
    /\ ShapeModeIdle /\ PlaneIdle /\ AggIdle /\ AnimIdle /\ PlotIdle
    /\ mesh_call \in [op : {"transform"}, xo : PointValues, yo : PointValues,
                      zo : PointValues, angle : Angles, cm : Centroids]
    /\ mesh_ret = NoResult
    /\ shtools_calls = <<>>

\* the caller runs transform_coords_to_mem_space(xo, yo, zo, angle, cm)
CallTransformCoordsToMemSpace ==
    /\ mesh_call.op = "transform"
    /\ mesh_ret = NoResult
    /\ \E t \in {transform_coords_to_mem_space(mesh_call.xo, mesh_call.yo, mesh_call.zo,
                                               mesh_call.angle, mesh_call.cm)} :
          mesh_ret' = [status |-> "ok", xt |-> t[1], yt |-> t[2], zt |-> t[3]]
    /\ UNCHANGED <<mesh_call, shtools_calls, shapeVars, planeVars, aggVars, animVars, plotVars>>

\* ------------------------------------------------------------------------
\* PlotMaker: figs is an attribute of the class, a list created once and
\* reached through every instance that has no attribute figs of its own;
\* execute gives the instance its own list when it ends.  A figure is
\* identified by the instance and the call that registered it.
\* ------------------------------------------------------------------------
\* the instances: a ConcordancePlotMaker and a StereotypyPlotMaker
Makers == {"concordance", "stereotypy"}

\* the figures one workflow registers: heatmap and dendrogram, or a boxplot
FiguresPerWorkflow(m) == IF m = "concordance" THEN 2 ELSE 1

MaxPlotCalls == 4

\* self.figs: the attribute of the instance if it has one, else of the class
Figs(cls, self, m) == IF self[m].own THEN self[m].figs ELSE cls

\* self.figs.append((fig, signature)) for each figure of the workflow of
\* call number n: the list self.figs refers to is extended in place
Registered(cls, self, m, n) ==
    LET new == SeqMap(LAMBDA k : [owner |-> m, call |-> n, k |-> k],
                      Indices(FiguresPerWorkflow(m)))
    IN  IF self[m].own
        THEN [cls |-> cls, self |-> [self EXCEPT ![m].figs = @ \o new]]
        ELSE [cls |-> cls \o new, self |-> self]

\* the loop of save: every figure of self.figs is shown, or saved as png
\* and pdf and closed
Handled(figs, m, n, display) ==
    SeqMap(LAMBDA f : [maker |-> m, call |-> n, fig |-> f,
                       how |-> IF display THEN "show" ELSE "savefig"],
           figs)

\* a variant of the end of execute that leaves the lists as they are
NotCleared(cls, self, m) == [cls |-> cls, self |-> self]

\* self.figs = []: the instance gets an attribute of its own, a new list
Cleared(cls, self, m) ==
    [cls |-> cls, self |-> [self EXCEPT ![m] = [own |-> TRUE, figs |-> <<>>]]]

InitPlot ==
    /\ ShapeModeIdle /\ CoeffsIdle /\ PlaneIdle /\ AggIdle /\ AnimIdle
    /\ plot_figs = <<>>
    /\ plot_self = [m \in Makers |-> [own |-> FALSE]]
    /\ plot_calls = <<>>
    /\ plot_log = <<>>

\* instance m runs its workflow outside execute
PlotWorkflow(m) ==
    /\ m \in DOMAIN plot_self
    /\ Len(plot_calls) < MaxPlotCalls
    /\ plot_calls' = Append(plot_calls, [op |-> "workflow", maker |-> m])
    /\ \E h \in {Registered(plot_figs, plot_self, m, Len(plot_calls) + 1)} :
          plot_figs' = h.cls /\ plot_self' = h.self
    /\ UNCHANGED <<plot_log, shapeVars, coeffVars, planeVars, aggVars, animVars>>

\* instance m runs save(display)
PlotSave(m, display) ==
    /\ m \in DOMAIN plot_self
    /\ Len(plot_calls) < MaxPlotCalls
    /\ plot_calls' = Append(plot_calls, [op |-> "save", maker |-> m])
    /\ plot_log' = plot_log \o Handled(Figs(plot_figs, plot_self, m), m,
                                       Len(plot_calls) + 1, display)
    /\ UNCHANGED <<plot_figs, plot_self, shapeVars, coeffVars, planeVars, aggVars, animVars>>

\* instance m runs execute(display): workflow, save, then self.figs = []
PlotExecute(m, display) ==
    /\ m \in DOMAIN plot_self
    /\ Len(plot_calls) < MaxPlotCalls
    /\ plot_calls' = Append(plot_calls, [op |-> "execute", maker |-> m])
    /\ \E h \in {Registered(plot_figs, plot_self, m, Len(plot_calls) + 1)} :
          /\ plot_log' = plot_log \o Handled(Figs(h.cls, h.self, m), m,
                                             Len(plot_calls) + 1, display)
          /\ \E c \in {Cleared(h.cls, h.self, m)} :
                plot_figs' = c.cls /\ plot_self' = c.self
    /\ UNCHANGED <<shapeVars, coeffVars, planeVars, aggVars, animVars>>

\* ------------------------------------------------------------------------
\* Properties of the percentile filter and of the digitizer
\* ------------------------------------------------------------------------
FilterReturned == call.op = "filter" /\ ret.status = "ok"

DigitizeReturned == call.op = "digitize" /\ ret.status = "ok"

\* row lies within the [pct, 100-pct] percentile interval of feature f,
\* the percentiles taken over the whole frame df0
WithinCutoffs(row, df0, f, pct) ==
    /\ 100 * row[f] >= Percentile100(ColValues(df0, f), pct)
    /\ 100 * row[f] <= Percentile100(ColValues(df0, f), 100 - pct)

Inlier(row, df0, features, pct) ==
    \A k \in DOMAIN features : WithinCutoffs(row, df0, features[k], pct)

RetainedIds == {ret.df[i]["id"] : i \in DOMAIN ret.df}

MembersOf(k) == {ret.bin_indexes[k][2][j] : j \in DOMAIN ret.bin_indexes[k][2]}

\* C1: after digitize_shape_mode every retained record has one bin index,
\* in 1..nbins, and the bin member lists are pairwise disjoint with union
\* the retained records.
C1_BinsPartitionRetained ==
    DigitizeReturned =>
        /\ \A i \in DOMAIN ret.df : ret.df[i]["bin"] \in 1..call.nbins
        /\ \A k \in DOMAIN ret.bin_indexes : ret.bin_indexes[k][1] \in 1..call.nbins
        /\ \A k, l \in DOMAIN ret.bin_indexes :
              k # l => MembersOf(k) \cap MembersOf(l) = {}
        /\ UNION {MembersOf(k) : k \in DOMAIN ret.bin_indexes} = RetainedIds

\* x < y and x <= y for float32 values that are not NaN
F32Leq(x, y) ==
    IF x.kind = "inf" THEN x.neg \/ (y.kind = "inf" /\ ~y.neg)
    ELSE IF y.kind = "inf" THEN ~y.neg
    ELSE IF x.m = 0 THEN y.m = 0 \/ ~y.neg
    ELSE IF y.m = 0 THEN x.neg
    ELSE IF x.neg # y.neg THEN x.neg
    ELSE IF x.neg THEN F32MagGeq(x, y)
    ELSE F32MagGeq(y, x)

F32Less(x, y) == ~F32Leq(y, x)

\* C3: a record of z-scored value z is in bin k exactly when
\* edge[k-1] <= z < edge[k]; values below -2 are in bin 1, values above 2
\* in bin nbins, and the bin index is non-decreasing in z.
C3_LeftClosedIntervalSearch ==
    DigitizeReturned =>
        /\ \A i \in DOMAIN ret.df :
              LET z == ret.values[i]
                  k == ret.df[i]["bin"]
              IN  z.kind # "nan" =>
                    /\ k \in 1..(Len(ret.bin_edges) - 1)
                    /\ EdgeLeq(ret.bin_edges[k], z)
                    /\ ~EdgeLeq(ret.bin_edges[k + 1], z)
                    /\ F32Less(z, F32FromInt(LINF)) => k = 1
                    /\ F32Less(F32FromInt(LSUP), z) => k = call.nbins
        /\ \A i, j \in DOMAIN ret.df :
              (ret.values[i].kind # "nan" /\ ret.values[j].kind # "nan"
                 /\ F32Leq(ret.values[i], ret.values[j]))
              => ret.df[i]["bin"] <= ret.df[j]["bin"]

\* ------------------------------------------------------------------------
\* Properties of the coefficient matrix builder
\* ------------------------------------------------------------------------
MatrixReturned == mesh_call.op = "coeffs" /\ mesh_ret.status = "ok"

F32IsZero(x) == x.kind = "fin" /\ x.m = 0

\* the fields of the row selected for entry (k, l, m)
SelectedFields(k, l, m) ==
    Matching(mesh_call.row,
             CoeffKey(mesh_call.prefix, l, m, IF k = 0 THEN "C" ELSE "S"))

\* C4: the matrix is 2 x lmax x lmax; for m <= l the cosine entry [0,l,m]
\* and the sine entry [1,l,m] each hold the value of their own field when
\* it exists and 0 when it does not, independently of one another; every
\* entry with m > l is 0.
C4_EntriesFilledIndependently ==
    MatrixReturned =>
        /\ DOMAIN mesh_ret.coeffs =
              {0, 1} \X (0..(mesh_call.lmax - 1)) \X (0..(mesh_call.lmax - 1))
        /\ \A idx \in DOMAIN mesh_ret.coeffs :
              LET fs == SelectedFields(idx[1], idx[2], idx[3])
              IN  /\ idx[3] > idx[2] => F32IsZero(mesh_ret.coeffs[idx])
                  /\ (idx[3] <= idx[2] /\ fs = {}) => F32IsZero(mesh_ret.coeffs[idx])
                  /\ (idx[3] <= idx[2] /\ Cardinality(fs) = 1) =>
                        mesh_ret.coeffs[idx] =
                            F32FromInt(mesh_call.row[CHOOSE f \in fs : TRUE])

\* the matrix the loop of the builder fills for the call made
BuiltMatrix ==
    FillMatrix(ZeroMatrix(mesh_call.lmax), mesh_call.row, mesh_call.prefix,
               DegreeOrderPairs(mesh_call.lmax), 1)

PrefixMatchesNoField ==
    \A f \in DOMAIN mesh_call.row : ~Contains(mesh_call.prefix, f)

\* C5: the builder raises exactly when the matrix it built is entirely
\* zero, in particular when the prefix matches no field; a returned matrix
\* is never all zero; after a raise no mesh reconstruction was attempted.
C5_RaisesIffMatrixAllZero ==
    (mesh_call.op # "none" /\ mesh_ret # NoResult) =>
        /\ mesh_ret.status = "Exception"
              <=> \A idx \in DOMAIN BuiltMatrix : F32IsZero(BuiltMatrix[idx])
        /\ PrefixMatchesNoField => mesh_ret.status = "Exception"
        /\ MatrixReturned =>
              \E idx \in DOMAIN mesh_ret.coeffs : ~F32IsZero(mesh_ret.coeffs[idx])
        /\ mesh_call.op = "mesh" =>
              IF mesh_ret.status = "Exception"
              THEN shtools_calls = <<>>
              ELSE /\ shtools_calls = <<mesh_ret.mesh.coeffs>>
                   /\ \E idx \in DOMAIN BuiltMatrix : ~F32IsZero(BuiltMatrix[idx])

\* C5 witness: get_mesh_from_dataframe raised on a row whose fields all
\* lack the prefix, and nothing was reconstructed.
C5_Witness ==
    /\ mesh_call.op = "mesh"
    /\ mesh_ret.status = "Exception"
    /\ DOMAIN mesh_call.row # {}
    /\ PrefixMatchesNoField
    /\ shtools_calls = <<>>

\* ------------------------------------------------------------------------
\* Properties of find_plane_mesh_intersection
\* ------------------------------------------------------------------------
PlaneCallDone == plane_call.op = "intersect" /\ plane_ret # NoResult

\* the axis of {0, 1, 2} that is not in proj
AxisNotIn(proj) == CHOOSE a \in {0, 1, 2} \ {proj[1], proj[2]} : TRUE

OrthogonalCoordsAllZero ==
    \A i \in DOMAIN plane_call.mesh :
        plane_call.mesh[i][AxisNotIn(plane_call.proj) + 1] = 0

\* C6: find_plane_mesh_intersection raises exactly when every mesh point
\* has coordinate 0 along the axis orthogonal to the projection, and then
\* before any plane is built or intersection computed; orthogonal
\* coordinates that sum to zero without all being zero do not make it fail.
C6_DegenerateIffAllOrthogonalZero ==
    PlaneCallDone =>
        /\ plane_ret.status = "Exception" <=> OrthogonalCoordsAllZero
        /\ plane_ret.status = "Exception" => vtk_calls = <<>>
        /\ plane_ret.status # "Exception" =>
              \E i \in DOMAIN vtk_calls :
                  vtk_calls[i].filter = "vtkIntersectionPolyDataFilter"

\* C6 witness: a mesh of two points, not at the origin, both with
\* orthogonal coordinate 0, made the call raise with no vtk filter run.
C6_Witness ==
    /\ PlaneCallDone
    /\ plane_ret.status = "Exception"
    /\ Len(plane_call.mesh) >= 2
    /\ \E i \in DOMAIN plane_call.mesh : plane_call.mesh[i] # <<0, 0, 0>>
    /\ OrthogonalCoordsAllZero
    /\ vtk_calls = <<>>

ContourReturned == plane_call.op = "intersect" /\ plane_ret.status = "ok"

Occurrences(points, p) == Cardinality({i \in DOMAIN points : points[i] = p})

\* where theta = atan2(dy, dx) of direction d lies in (-180, 180]:
\* 0 below the x axis, 1 for theta = 0, 2 above the x axis, 3 for theta = 180
ThetaRange(d) ==
    IF d[2] < 0 THEN 0 ELSE IF d[2] > 0 THEN 2 ELSE IF d[1] > 0 THEN 1 ELSE 3

ThetaLess(d1, d2) ==
    IF ThetaRange(d1) # ThetaRange(d2) THEN ThetaRange(d1) < ThetaRange(d2)
    ELSE ThetaRange(d1) \in {0, 2} /\ Cross(d1, d2) > 0

\* theta <= -135, where (-135 - theta) mod 360 is -135 - theta; elsewhere
\* it is 225 - theta
BeforeWrap(d) == d[1] < 0 /\ d[2] < 0 /\ d[2] >= d[1]

\* (-135 - theta1) mod 360 < (-135 - theta2) mod 360
ClockwiseKeyLess(d1, d2) ==
    IF BeforeWrap(d1) # BeforeWrap(d2) THEN BeforeWrap(d1)
    ELSE ThetaLess(d2, d1)

ReturnedCoords == Projected(plane_ret.points, plane_call.proj)

\* C7: the returned points are a permutation of the intersection points,
\* and along the returned sequence the key (-135 - theta) mod 360, theta
\* the atan2 angle of the projected point about the centroid of the
\* projections, is non-decreasing.
C7_ContourSortedClockwise ==
    ContourReturned =>
        /\ Len(plane_ret.points) = Len(plane_call.intersection)
        /\ \A i \in DOMAIN plane_ret.points :
              Occurrences(plane_ret.points, plane_ret.points[i])
                  = Occurrences(plane_call.intersection, plane_ret.points[i])
        /\ \A i \in 1..(Len(plane_ret.points) - 1) :
              ~ClockwiseKeyLess(FromCenter(ReturnedCoords, i + 1),
                                FromCenter(ReturnedCoords, i))

\* C7 witness: three distinct points were returned in another order than
\* the intersection filter gave them, the first one before the 360 wrap of
\* the key and the last one after it.
C7_Witness ==
    /\ ContourReturned
    /\ Len(plane_ret.points) = 3
    /\ plane_ret.points # plane_call.intersection
    /\ Cardinality({plane_ret.points[i] : i \in 1..3}) = 3
    /\ BeforeWrap(FromCenter(ReturnedCoords, 1))
    /\ ~BeforeWrap(FromCenter(ReturnedCoords, 3))

\* ------------------------------------------------------------------------
\* Properties of Aggregation.run
\* ------------------------------------------------------------------------
RunEnded == agg_call.op = "run" /\ agg.pc \in {"returned", "raised"}

RecordedPath(i) ==
    IF "df_agg" \in DOMAIN agg /\ "FilePath" \in DOMAIN agg.df_agg[i]
    THEN agg.df_agg[i]["FilePath"] ELSE NaN

\* C8: when the processing of one bin fails, the other bins are still
\* processed: once the single-process run has ended, every bin whose own
\* steps do not fail has its artifact persisted and its path recorded.
C8_FailingBinDoesNotAbortOthers ==
    (RunEnded /\ ~agg_call.distribute /\ "df_agg" \in DOMAIN agg) =>
        \A i \in DOMAIN agg_call.rows :
            agg_call.rows[i].fails = "none" =>
                /\ RecordedPath(i) = ArtifactPath(agg_call.rows[i])
                /\ ArtifactPath(agg_call.rows[i]) \in agg_fs

\* what the single-process loop leaves for a bin table: [df_agg, files]
RECURSIVE LocalLoop(_, _, _, _)
LocalLoop(rows, i, df, files) ==
    IF i > Len(rows) \/ rows[i].fails # "none" THEN [df_agg |-> df, files |-> files]
    ELSE LocalLoop(rows, i + 1, SetLoc(df, i, "FilePath", ArtifactPath(rows[i])),
                   files \cup {ArtifactPath(rows[i])})

Artifacts(files) == {f \in files : Len(f) = 2 /\ f[1] = "aggregations"}

\* C9: for the same inputs the distributed run leaves, once its jobs are
\* done, the same artifacts and the same manifest rows with their output
\* paths as the single-process run, whatever the order of the jobs.
C9_DistributedMatchesSingleProcess ==
    (RunEnded /\ agg_call.distribute /\ agg.pc = "returned" /\ agg_jobs = {}) =>
        LET local == LocalLoop(agg_call.rows, 1,
                               SeqMap(LAMBDA r : [bin |-> r.bin], agg_call.rows), {})
        IN  /\ agg.df_agg = local.df_agg
            /\ local.files \subseteq Artifacts(agg_fs)

\* ------------------------------------------------------------------------
\* Properties of animate_shape_modes_and_save_meshes
\* ------------------------------------------------------------------------
MeshWrites == SelectSeq(anim_files, LAMBDA w : "mesh" \in DOMAIN w)

\* the first projection is over: its contours were kept and its meshes written
FirstProjectionDone == "proj_id" \in DOMAIN anim /\ anim.proj_id >= 1

BinsOfCall == {anim_call.bin_indexes[k][1] : k \in DOMAIN anim_call.bin_indexes}

WritesOf(entity, b) ==
    {i \in DOMAIN MeshWrites :
        MeshWrites[i].name = MeshFileName(anim_call.save, entity, anim_call.feature, b)}

\* C10: in one run no mesh file is written before the first projection is
\* over; from then on, through the other two projections, exactly one
\* membrane and one nucleus mesh file have been written for each bin of
\* bin_indexes, each once, by the step of its own bin, under names that
\* differ across bins and entities.
C10_OneMeshFilePerBinAndEntity ==
    anim_call.op = "animate" =>
        /\ \A i, j \in DOMAIN anim_files :
              i # j => anim_files[i].name # anim_files[j].name
        /\ IF FirstProjectionDone
           THEN /\ Len(MeshWrites) = 2 * Cardinality(BinsOfCall)
                /\ \A b \in BinsOfCall :
                      /\ Cardinality(WritesOf("MEM", b)) = 1
                      /\ Cardinality(WritesOf("DNA", b)) = 1
                      /\ \A i \in WritesOf("MEM", b) \cup WritesOf("DNA", b) :
                            MeshWrites[i].step = b
           ELSE MeshWrites = <<>>

\* C10 witness: a run over two bins with members returned after all three
\* projections with four mesh files written.
C10_Witness ==
    /\ anim_call.op = "animate"
    /\ anim.pc = "returned"
    /\ anim.proj_id = 3
    /\ Cardinality(BinsOfCall) = 2
    /\ Len(MeshWrites) = 4

\* the calls run made on the aggregator and on the provider so far
RunCalls == IF "calls" \in DOMAIN agg THEN agg.calls ELSE <<>>

\* run got past the manifest checks
ManifestsRead == agg_call.op = "run" /\ "df_agg" \in DOMAIN agg

LocalCalls == {k \in DOMAIN RunCalls : RunCalls[k][1] \in
                   {AggregatorSteps[j] : j \in DOMAIN AggregatorSteps}}

ProviderCalls == {k \in DOMAIN RunCalls : RunCalls[k][1] = "distribute"}

\* C11: once a run that read its manifests has ended, a distributed run
\* has handed the work to the provider exactly once and made no local
\* aggregate, morph or save call; a single-process run has started the
\* processing of every row of the bin table and never called the provider.
C11_DistributeRoutesWork ==
    (RunEnded /\ ManifestsRead) =>
        IF agg_call.distribute
        THEN Cardinality(ProviderCalls) = 1 /\ LocalCalls = {}
        ELSE /\ ProviderCalls = {}
             /\ \A i \in DOMAIN agg_call.rows :
                    \E k \in LocalCalls : RunCalls[k] = <<"aggregate", agg_call.rows[i].bin>>

\* the routing alone: the provider is called once and only by a distributed
\* run, local calls are made only by a single-process run, and a
\* single-process run that returns has processed every row
C11_RoutingOfCompletedRuns ==
    (RunEnded /\ ManifestsRead) =>
        IF agg_call.distribute
        THEN Cardinality(ProviderCalls) = 1 /\ LocalCalls = {}
        ELSE /\ ProviderCalls = {}
             /\ agg.pc = "returned" =>
                    \A i \in DOMAIN agg_call.rows :
                        \E k \in LocalCalls : RunCalls[k] = <<"save", agg_call.rows[i].bin>>

\* a step of a run that finds a manifest missing raises for the first one in
\* the order parameterization, shape modes and changes nothing else; a step
\* of a run that finds both does not raise; a run that has raised is over
ManifestCheckStep ==
    /\ (agg.pc = "start" /\ (ParamManifest \notin agg_fs \/ ShapemodeManifest \notin agg_fs)) =>
            /\ agg'.pc = "raised"
            /\ agg'.error = "FileNotFoundError"
            /\ agg'.file = (IF ParamManifest \notin agg_fs THEN ParamManifest
                            ELSE ShapemodeManifest)
            /\ agg'.calls = <<>>
            /\ agg_fs' = agg_fs
            /\ agg_jobs' = {} /\ agg_jobs = {}
    /\ (agg.pc = "start" /\ ParamManifest \in agg_fs /\ ShapemodeManifest \in agg_fs) =>
            agg'.pc # "raised"
    /\ agg.pc = "raised" => UNCHANGED aggVars

\* C12: a run that finds a manifest missing raises FileNotFoundError for
\* the parameterization manifest when that one is missing and for the
\* shape-mode manifest otherwise, and in that step creates no directory or
\* file, hands nothing to the provider and makes no call on the aggregator;
\* a run that has raised does nothing more.
C12_MissingManifestFailsFirst == [][ManifestCheckStep]_vars

C12_Witness ==
    /\ agg.pc = "raised" /\ "error" \in DOMAIN agg
    /\ agg.file = ParamManifest
    /\ ShapemodeManifest \notin agg_fs
    /\ AggDir \notin agg_fs
    /\ agg_call.distribute

DigitizeEnded == call.op = "digitize" /\ ret # NoResult

FilterEnded == call.op = "filter" /\ ret # NoResult

\* the call ended in an exception and returned nothing
Failed(r) == r.status # "ok" /\ "df" \notin DOMAIN r /\ "returned" \notin DOMAIN r

\* C13: digitize_shape_mode called with a feature that is not a column of
\* the frame raises the ValueError of the feature check, whatever the filter
\* would have done, returns nothing and leaves the caller's frame as it was.
C13_FeatureCheckPrecedesFilter ==
    (DigitizeEnded /\ call.feature \notin Columns(call.df)) =>
        /\ ret.status = "ValueError"
        /\ Failed(ret)
        /\ caller_df = call.df

\* C13 witness: the feature is absent and so is the feature to filter on
C13_Witness ==
    /\ DigitizeEnded
    /\ call.feature \notin Columns(call.df)
    /\ call.filter_based_on = <<"pc3">>
    /\ ret.status = "ValueError"

\* C14: the percentile filter raises and returns no frame whenever pct is
\* negative, or 50 or more, or a listed feature is not a column.
C14_FilterRejectsBadArguments ==
    (FilterEnded /\ (\/ call.pct < 0
                     \/ call.pct >= 50
                     \/ \E k \in DOMAIN call.features :
                            call.features[k] \notin Columns(call.df))) =>
        ret.status # "ok" /\ ret.df = <<>>

\* what the code does reject: a feature that is not a column (KeyError) and
\* a pct below 0 or above 100 (ValueError of np.percentile)
C14_FilterRaisesForAbsentFeatureOrPctOutside0To100 ==
    FilterEnded =>
        (ret.status # "ok" <=>
            (\/ call.pct < 0
             \/ call.pct > 100
             \/ \E k \in DOMAIN call.features : call.features[k] \notin Columns(call.df)))

\* C15: digitize_shape_mode called with nbins below 2 ends in an exception
\* and returns no bin assignment, no bin centers and no sigma.
C15_FewerThanTwoBinsFails ==
    (DigitizeEnded /\ call.nbins < 2) =>
        /\ Failed(ret)
        /\ DOMAIN ret = {"status"}

\* C15 witness: the feature and the filter are sound and only nbins = 1 is
\* at fault
C15_Witness ==
    /\ DigitizeEnded
    /\ call.nbins = 1
    /\ call.feature = "pc1" /\ call.filter_based_on = <<"pc1">>
    /\ ret.status = "ZeroDivisionError"

\* C16: a call of the percentile filter leaves the caller's frame as it
\* was, same records with the same fields and values, and every record of
\* the result has the field values it had in the input.
C16_FilterLeavesInputUntouched ==
    FilterEnded =>
        /\ caller_df = call.df
        /\ \A j \in DOMAIN ret.df :
              \E i \in DOMAIN call.df : ret.df[j] = call.df[i]

\* the part of C16 that the code keeps: the records of the result are
\* records of the input, field by field
C16_RetainedRecordsUnchanged ==
    FilterEnded =>
        \A j \in DOMAIN ret.df : \E i \in DOMAIN call.df : ret.df[j] = call.df[i]

DigitizedTwice == call.op = "digitize" /\ ret # NoResult /\ ret_again # NoResult

\* C17: digitize_shape_mode repeated with the same arguments on the frame
\* as the first call left it ends as the first call did, and when that call
\* returned, with the same returned tuple: the same bin of every record,
\* the same bin member lists, the same bin centers and the same sigma.
C17_DigitizeTwiceSameResult ==
    DigitizedTwice =>
        /\ ret_again.status = ret.status
        /\ ret.status = "ok" =>
              /\ ret_again.returned = ret.returned
              /\ ret_again.df = ret.df
              /\ ret_again.bin_indexes = ret.bin_indexes
              /\ ret_again.bin_centers = ret.bin_centers
              /\ ret_again.pc_std = ret.pc_std

\* C17 witness: the first call dropped a record as extreme and used more
\* than one bin, and the caller's frame carries the flags of that call
C17_Witness ==
    /\ DigitizedTwice
    /\ ret.status = "ok"
    /\ Len(ret.df) < Len(call.df)
    /\ Len(ret.bin_indexes) > 1
    /\ \E i \in DOMAIN caller_df : "extreme" \in DOMAIN caller_df[i]
    /\ caller_df # call.df

PlaneCalledTwice ==
    plane_call.op = "intersect" /\ plane_ret # NoResult /\ plane_ret_again # NoResult

\* the projections of the points the intersection filter gave
IntersectionCoords == Projected(plane_call.intersection, plane_call.proj)

SameKey(d1, d2) == ~ClockwiseKeyLess(d1, d2) /\ ~ClockwiseKeyLess(d2, d1)

\* q names, for every returned position, the intersection point it holds,
\* and points of equal key are in the order the filter gave them
StableArrangement(q) ==
    /\ \A k \in DOMAIN ReturnedCoords : ReturnedCoords[k] = IntersectionCoords[q[k]]
    /\ \A k, l \in DOMAIN ReturnedCoords :
          (k < l /\ SameKey(FromCenter(IntersectionCoords, q[k]),
                            FromCenter(IntersectionCoords, q[l])))
          => q[k] < q[l]

\* C18: find_plane_mesh_intersection repeated on the same mesh and
\* projection ends as the first call did, with the same points in the same
\* order, and the returned order keeps intersection points of equal sort
\* key in the relative order the intersection filter gave them.
C18_SameOrderTwiceAndStableUnderTies ==
    PlaneCalledTwice =>
        /\ plane_ret_again = plane_ret
        /\ plane_ret.status = "ok" =>
              /\ Len(plane_ret.points) = Len(plane_call.intersection)
              /\ \E q \in Permutations(DOMAIN IntersectionCoords) : StableArrangement(q)

\* C18 witness: two different points of equal key were given, the sort
\* moved a point, and the two calls have returned
C18_Witness ==
    /\ PlaneCalledTwice
    /\ plane_ret.status = "ok"
    /\ plane_ret.points # plane_call.intersection
    /\ \E i, j \in DOMAIN IntersectionCoords :
          /\ i < j
          /\ IntersectionCoords[i] # IntersectionCoords[j]
          /\ SameKey(FromCenter(IntersectionCoords, i), FromCenter(IntersectionCoords, j))

\* the records the percentile filter retains for the call
RetainedRecords ==
    filter_extremes_based_on_percentile(call.df, call.filter_based_on, call.pct).df

\* rows holds one row per retained record, the record with its bin index
AnnotatedRecords(rows) ==
    /\ Len(rows) = Len(RetainedRecords)
    /\ \A j \in DOMAIN rows :
          /\ DOMAIN rows[j] = DOMAIN RetainedRecords[j] \cup {"bin"}
          /\ DropCol(rows[j], "bin") = RetainedRecords[j]

\* C19: digitize_shape_mode returns first the filtered records, one row
\* per retained record with its bin index, then the bin member lists and
\* the pair (bin centers, sigma), without and with the per-structure
\* frequency table, which only comes as a fourth result.
C19_FirstResultIsAnnotatedRecords ==
    DigitizeReturned =>
        /\ Len(ret.returned) = (IF call.return_freqs_per_structs THEN 4 ELSE 3)
        /\ AnnotatedRecords(ret.returned[1])
        /\ ret.returned[2] = ret.bin_indexes
        /\ ret.returned[3] = <<ret.bin_centers, ret.pc_std>>

\* what holds of the code: the claim's tuple without the frequency table,
\* and with it the per-bin means in the first place
C19_ResultsByFrequencyOption ==
    DigitizeReturned =>
        /\ Len(ret.returned) = (IF call.return_freqs_per_structs THEN 4 ELSE 3)
        /\ AnnotatedRecords(ret.df)
        /\ ret.returned[1] = (IF call.return_freqs_per_structs THEN GroupMeans(ret.df)
                              ELSE ret.df)
        /\ ret.returned[2] = ret.bin_indexes
        /\ ret.returned[3] = <<ret.bin_centers, ret.pc_std>>

PcCoordsCallDone == mesh_call.op = "pc_coords" /\ mesh_ret # NoResult

\* the inverse transform of the vector holding c at component pc and zero
\* elsewhere, c as the float32 matrix of the call stores it
ExpectedCoefficients(pca, pc, c) ==
    [j \in DOMAIN pca.mean |->
        pca.mean[j] + Float32Value(c) * pca.components[pc + 1][j]]

OffsetsStored == anim_call.op = "animate" /\ anim.pc # "offsets"

\* the row of the bin table with index label b
AggRow(b) == anim.df_agg[CHOOSE i \in DOMAIN anim.df_agg : anim.df_agg[i]["bin"] = b]

\* the cells of df whose identifier is in the member list of entry k
MemberCells(k) ==
    LET ids == {anim_call.bin_indexes[k][2][j] : j \in DOMAIN anim_call.bin_indexes[k][2]}
    IN  SelectSeq(anim_call.df, LAMBDA r : r.id \in ids)

\* the nuclear centroid of a cell in the frame of the aligned cell
AlignedCentroid(r) ==
    transform_coords_to_mem_space(r.dna_position[1], r.dna_position[2], r.dna_position[3],
                                  r.angle, r.mem_position)

\* C21: once the offsets are stored, every bin of bin_indexes has a nucleus
\* offset (dna_dxc, dna_dyc, dna_dzc) in the bin table: with
\* fix_nuclear_position it is, component by component, the float64 mean over
\* exactly the member cells of that bin of the nuclear centroid in the frame
\* of the aligned cell; without it the offset is (0, 0, 0).
C21_OffsetIsMeanOverBinMembers ==
    OffsetsStored =>
        \A k \in DOMAIN anim_call.bin_indexes :
            LET b     == anim_call.bin_indexes[k][1]
                cells == MemberCells(k)
            IN  /\ \E i \in DOMAIN anim.df_agg : anim.df_agg[i]["bin"] = b
                /\ \A c \in 1..3 :
                      /\ OffsetColumns[c] \in DOMAIN AggRow(b)
                      /\ IF anim_call.fix_nuclear_position
                         THEN AggRow(b)[OffsetColumns[c]] =
                                 F64DivInt(F64SumFrom(SeqMap(LAMBDA r : AlignedCentroid(r)[c],
                                                             cells),
                                                      1, F64FromInt(0)),
                                           Len(cells))
                         ELSE AggRow(b)[OffsetColumns[c]] = 0

\* C21 witness: offsets stored with fix_nuclear_position for two bins of one
\* cell each, the cells aligned by different angles, so that the two bins
\* hold different offsets.
C21_Witness ==
    /\ OffsetsStored
    /\ anim_call.fix_nuclear_position
    /\ Len(anim_call.bin_indexes) = 2
    /\ Len(anim_call.df) = 2
    /\ anim_call.df[1].angle # anim_call.df[2].angle
    /\ AggRow(anim_call.bin_indexes[1][1])["dna_dxc"] #
          AggRow(anim_call.bin_indexes[2][1])["dna_dxc"]

TransformReturned == mesh_call.op = "transform" /\ mesh_ret.status = "ok"

\* the point of the call minus the centroid of the call
Translated == <<mesh_call.xo - mesh_call.cm[1], mesh_call.yo - mesh_call.cm[2],
                mesh_call.zo - mesh_call.cm[3]>>

\* C27: transform_coords_to_mem_space translates the point by minus the
\* centroid and then rotates it in the xy-plane by the angle, taken in
\* degrees: zt is zo - cm[2] for every angle; angle 0 gives the translation
\* alone; a point equal to the centroid gives the origin for every angle;
\* at 60 and -60 degrees a translated point on the x axis gets xt = half its
\* x coordinate (cos 60 degrees = 1/2), up to rounding.
C27_TranslateThenRotateInPlane ==
    TransformReturned =>
        /\ mesh_ret.zt = F64FromInt(Translated[3])
        /\ mesh_call.angle = 0 =>
              /\ mesh_ret.xt = F64FromInt(Translated[1])
              /\ mesh_ret.yt = F64FromInt(Translated[2])
        /\ (Translated = <<0, 0, 0>>) =>
              /\ mesh_ret.xt = F64FromInt(0)
              /\ mesh_ret.yt = F64FromInt(0)
              /\ mesh_ret.zt = F64FromInt(0)
        /\ (mesh_call.angle \in {60, -60} /\ Translated[2] = 0) =>
              F64Near(mesh_ret.xt, F64Ratio(Translated[1], 2))

\* C27 witness: a call at 60 degrees on a point off the centroid whose
\* translation lies off the z axis returned a point that the rotation moved
\* away from the translation.
C27_Witness ==
    /\ TransformReturned
    /\ mesh_call.angle = 60
    /\ mesh_call.cm # <<0, 0, 0>>
    /\ Translated[1] # 0
    /\ Translated[3] # 0
    /\ mesh_ret.xt # F64FromInt(Translated[1])
    /\ mesh_ret.zt = F64FromInt(Translated[3])

\* the calls of the single-process loop for the first n rows of the table
RECURSIVE CallsUpTo(_, _)
CallsUpTo(rows, n) ==
    IF n = 0 THEN <<>> ELSE CallsUpTo(rows, n - 1) \o CallsFor(rows[n])

\* the rows whose processing the single-process loop has started
RowsStarted ==
    IF agg.pc = "raised" THEN agg.i
    ELSE IF agg.i > Len(agg_call.rows) THEN Len(agg_call.rows) ELSE agg.i - 1

\* C22: a run with overwrite=true that read its manifests has, once it has
\* ended, recomputed and saved again every bin whose steps do not fail
\* (single process: aggregate, morph_on_shapemode_shape and save were called
\* for it in this run; distributed: the work was handed over), also when
\* the artifact of the bin was there before the run; and the calls made are
\* those made with overwrite=false.
C22_OverwriteRecomputesEveryBin ==
    (RunEnded /\ ManifestsRead /\ agg_call.overwrite) =>
        IF agg_call.distribute
        THEN RunCalls = << <<"distribute">> >>
        ELSE /\ RunCalls = CallsUpTo(agg_call.rows, RowsStarted)
             /\ \A i \in DOMAIN agg_call.rows :
                   agg_call.rows[i].fails = "none" =>
                      \A s \in DOMAIN AggregatorSteps :
                         \E k \in LocalCalls :
                            RunCalls[k] = <<AggregatorSteps[s], agg_call.rows[i].bin>>

\* the option alone: whatever overwrite is and whatever artifacts exist, the
\* calls made so far and the bin table are those the rows and the branch
\* determine, and a single-process run that returns has saved every bin
C22_OverwriteHasNoEffect ==
    ManifestsRead =>
        IF agg_call.distribute
        THEN /\ RunCalls \in {<<>>, << <<"distribute">> >>}
             /\ agg.df_agg = SeqMap(LAMBDA r : [bin |-> r.bin], agg_call.rows)
        ELSE /\ RunCalls = CallsUpTo(agg_call.rows, RowsStarted)
             /\ agg.pc = "returned" =>
                   /\ agg.df_agg = LocalLoop(agg_call.rows, 1,
                                             SeqMap(LAMBDA r : [bin |-> r.bin],
                                                    agg_call.rows), {}).df_agg
                   /\ \A i \in DOMAIN agg_call.rows :
                         \E k \in LocalCalls :
                            RunCalls[k] = <<"save", agg_call.rows[i].bin>>

\* the k-th call of a single-process run is made on row (k-1) \div 3 + 1
RowOfCall(k) == ((k - 1) \div 3) + 1

\* C23: in a single-process run the k-th call on the aggregator is the
\* step aggregate, morph_on_shapemode_shape or save, in this order, of the
\* row at position (k-1) \div 3 + 1 of the bin table, so that the rows are
\* processed one at a time in table order, each through its three steps
\* before the next one starts; a row carries a FilePath exactly when its
\* save was called and returned, and that FilePath is the path its own save
\* returned; after a run that returns every row has a FilePath.
C23_RowsProcessedOneAtATimeInOrder ==
    (ManifestsRead /\ ~agg_call.distribute) =>
        /\ \A k \in DOMAIN RunCalls :
              /\ RowOfCall(k) \in DOMAIN agg_call.rows
              /\ RunCalls[k] =
                    << <<"aggregate", "morph_on_shapemode_shape", "save">>[((k - 1) % 3) + 1],
                       agg_call.rows[RowOfCall(k)].bin >>
        /\ \A i \in DOMAIN agg_call.rows :
              IF /\ 3 * i \in DOMAIN RunCalls
                 /\ agg_call.rows[i].fails = "none"
              THEN RecordedPath(i) = ArtifactPath(agg_call.rows[i])
              ELSE RecordedPath(i) = NaN
        /\ agg.pc = "returned" =>
              /\ Len(RunCalls) = 3 * Len(agg_call.rows)
              /\ \A i \in DOMAIN agg_call.rows : RecordedPath(i) # NaN

\* C23 witness: a single-process run over three rows has returned after
\* nine calls, the third row recorded with its own path.
C23_Witness ==
    /\ ManifestsRead /\ ~agg_call.distribute
    /\ agg.pc = "returned"
    /\ Len(agg_call.rows) = 3
    /\ Len(RunCalls) = 9
    /\ RunCalls[9] = <<"save", 3>>
    /\ RecordedPath(3) = ArtifactPath(agg_call.rows[3])
    /\ RecordedPath(3) # RecordedPath(2)

\* the bin np.digitize gives a float64 value x among the edges of the call:
\* the number of edges that are <= x
BinOfF64(x) ==
    Cardinality({j \in DOMAIN ret.bin_edges :
                    \/ ret.bin_edges[j].inf = -1
                    \/ ret.bin_edges[j].inf = 0 /\ ~F64Less(x, ret.bin_edges[j].v)})

\* the centers of the call: nbins strictly increasing values from LINF to
\* LSUP, consecutive ones 4/(nbins-1) apart up to rounding
CentersEvenlySpaced ==
    /\ Len(ret.bin_centers) = call.nbins
    /\ ret.bin_centers[1] = F64FromInt(-2)
    /\ ret.bin_centers[call.nbins] = F64FromInt(2)
    /\ \A k \in 1..(call.nbins - 1) :
          /\ F64Less(ret.bin_centers[k], ret.bin_centers[k + 1])
          /\ F64Near(F64Sub(ret.bin_centers[k + 1], ret.bin_centers[k]),
                     F64Ratio(4, call.nbins - 1))

\* C24: for nbins >= 2 the bin centers are nbins evenly spaced, strictly
\* increasing values from -2 to 2, the half width is 4/(2*(nbins-1)), the
\* sorted edges without duplicates number nbins+1, the inner edges are the
\* midpoints between consecutive centers, and the k-th center falls in
\* bin k.
C24_EdgesAreMidpointsOfCenters ==
    (DigitizeReturned /\ call.nbins >= 2) =>
        /\ CentersEvenlySpaced
        /\ BinHalfWidth(call.nbins) = F64Ratio(4, 2 * (call.nbins - 1))
        /\ Len(ret.bin_edges) = call.nbins + 1
        /\ \A k \in 1..(call.nbins - 1) :
              /\ k + 1 \in DOMAIN ret.bin_edges
              /\ F64Near(F64Add(ret.bin_edges[k + 1].v, ret.bin_edges[k + 1].v),
                         F64Add(ret.bin_centers[k], ret.bin_centers[k + 1]))
        /\ \A k \in 1..call.nbins : BinOfF64(ret.bin_centers[k]) = k

\* what holds of the centers and edges: the centers are evenly spaced from
\* -2 to 2, the edges are strictly increasing, and there are nbins+1 of
\* them when nbins is 2, 3 or 5
C24_CentersEvenlySpacedEdgesSorted ==
    (DigitizeReturned /\ call.nbins >= 2) =>
        /\ CentersEvenlySpaced
        /\ \A j \in 1..(Len(ret.bin_edges) - 1) :
              F64Less(ret.bin_edges[j].v, ret.bin_edges[j + 1].v)
        /\ call.nbins \in {2, 3, 5} =>
              /\ Len(ret.bin_edges) = call.nbins + 1
              /\ \A k \in 1..call.nbins : BinOfF64(ret.bin_centers[k]) = k

\* C25: a figure is shown or saved only by the instance that registered
\* it: every entry of the log of shown and saved figures, whether made by
\* save or by execute, is about a figure of the instance that made it.
C25_NoFigureHandledByAnotherInstance ==
    \A i \in DOMAIN plot_log : plot_log[i].fig.owner = plot_log[i].maker

\* what holds across instances: an instance that has its own list shows and
\* saves figures of its own only
C25_OwnListHoldsOwnFigures ==
    \A m \in DOMAIN plot_self :
        plot_self[m].own =>
            \A i \in DOMAIN plot_self[m].figs : plot_self[m].figs[i].owner = m

\* the entries of the log made by call n about figure f
HandledBy(n, f) == {i \in DOMAIN plot_log : plot_log[i].call = n /\ plot_log[i].fig = f}

\* the figures the workflow of call n registers
FiguresOf(n) ==
    {[owner |-> plot_calls[n].maker, call |-> n, k |-> k] :
        k \in 1..FiguresPerWorkflow(plot_calls[n].maker)}

\* C29: execute runs workflow, save and the clearing of the list in this
\* order: every figure its workflow registered is shown or saved exactly
\* once by that execute; when execute is the last call made, the figure
\* list of its instance is empty; and no execute shows or saves a figure
\* that an earlier execute of the same instance registered.
C29_ExecuteHandlesItsFiguresOnce ==
    /\ \A n \in DOMAIN plot_calls :
          plot_calls[n].op = "execute" =>
             \A f \in FiguresOf(n) : Cardinality(HandledBy(n, f)) = 1
    /\ (plot_calls # <<>> /\ plot_calls[Len(plot_calls)].op = "execute") =>
          Figs(plot_figs, plot_self, plot_calls[Len(plot_calls)].maker) = <<>>
    /\ \A i \in DOMAIN plot_log :
          LET later   == plot_log[i].call
              earlier == plot_log[i].fig.call
          IN  (/\ plot_calls[later].op = "execute"
               /\ plot_calls[earlier].op = "execute"
               /\ plot_calls[later].maker = plot_calls[earlier].maker)
              => later = earlier

\* C29 witness: one instance ran execute twice; the second execute saved
\* the figures of its own workflow and nothing else.
C29_Witness ==
    /\ Len(plot_calls) = 2
    /\ plot_calls[1] = [op |-> "execute", maker |-> "concordance"]
    /\ plot_calls[2] = [op |-> "execute", maker |-> "concordance"]
    /\ Len(plot_log) = 4
    /\ plot_log[3].how = "savefig"
    /\ \A i \in 3..4 : plot_log[i].call = 2 /\ plot_log[i].fig.call = 2
    /\ plot_self["concordance"] = [own |-> TRUE, figs |-> <<>>]

\* the results of get_contours_of_consecutive_reconstructions the call
\* holds at this point, with the entity and the projection they were made for
ContourResults ==
    {[entity |-> e, proj |-> ProjectionList[anim.proj_id + 1], r |-> anim[e]] :
        e \in {"mem", "dna"} \cap DOMAIN anim}

\* box is the axis-aligned bounding box of points
IsBoundingBox(box, points) ==
    \A a \in 1..3 :
        /\ \A i \in DOMAIN points : box[2 * a - 1] <= points[i][a] /\ points[i][a] <= box[2 * a]
        /\ \E i \in DOMAIN points : points[i][a] = box[2 * a - 1]
        /\ \E i \in DOMAIN points : points[i][a] = box[2 * a]

\* C26: a call of get_contours_of_consecutive_reconstructions that returns
\* gives three lists of the length of its input, and for every i entry i of
\* each belongs to row i: the mesh is the one reconstructed from row i, the
\* limits are the axis-aligned bounding box of that mesh, and the contour is
\* the intersection of that mesh with the plane of the projection.
C26_ContourMeshAndLimitsPerRow ==
    \A c \in ContourResults :
        /\ Len(c.r.contours) = Len(anim.df_agg)
        /\ Len(c.r.meshes) = Len(anim.df_agg)
        /\ Len(c.r.limits) = Len(anim.df_agg)
        /\ \A i \in DOMAIN anim.df_agg :
              /\ c.r.meshes[i].of = anim.df_agg[i]["bin"]
              /\ c.r.meshes[i].points = MeshPoints(anim.df_agg[i][c.entity])
              /\ IsBoundingBox(c.r.limits[i], c.r.meshes[i].points)
              /\ c.r.contours[i].of = anim.df_agg[i]["bin"]
              /\ c.r.contours[i].points =
                    find_plane_mesh_intersection(c.proj, c.r.meshes[i].points,
                                                 VtkIntersection(c.proj)).points

\* C26 witness: the call returned for a table of three rows whose second
\* mesh differs from the others, with limits that differ accordingly.
C26_Witness ==
    /\ "mem" \in DOMAIN anim
    /\ Len(anim.df_agg) = 3
    /\ Len(anim.mem.limits) = 3
    /\ anim.df_agg[2]["mem"] # "solid"
    /\ anim.mem.limits[2] # anim.mem.limits[1]
    /\ anim.mem.limits[3] = anim.mem.limits[1]

\* the animations written so far
Animations == SelectSeq(anim_files, LAMBDA w : "frames" \in DOMAIN w)

\* the index labels of the bin table of the call
TableBins == {anim_call.df_agg[i]["bin"] : i \in DOMAIN anim_call.df_agg}

\* the contours of all three projections are made: what follows is the
\* rendering of the animations, or the call is over
ContoursMade ==
    /\ anim_call.op = "animate"
    /\ anim.pc \in {"returned", "raised"}
    /\ anim.proj_id = 3

\* in every frame of every animation written, the offset added to the
\* nucleus contour is the one the bin table holds for the bin of the
\* membrane and nucleus contours of that frame
FramesAligned ==
    \A a \in DOMAIN Animations :
        \A k \in DOMAIN Animations[a].frames :
            LET frame == Animations[a].frames[k]
                proj  == ProjectionList[Animations[a].step]
            IN  /\ frame.mem.of = frame.dna.of
                /\ frame.offset_of = frame.mem.of
                /\ frame.offset = <<AggRow(frame.mem.of)[OffsetColumns[proj[1] + 1]],
                                    AggRow(frame.mem.of)[OffsetColumns[proj[2] + 1]]>>

\* C28: for a bin table that holds the bins with members, whichever they
\* are, once the contours of the three projections are made the three
\* animations are built with one frame per bin, and the offset added in
\* each frame is the one stored for the bin whose contours the frame draws.
C28_FrameOffsetIsOfTheSameBin ==
    (ContoursMade /\ TableBins = BinsOfCall) =>
        /\ anim.pc = "returned"
        /\ Len(Animations) = 3
        /\ \A a \in DOMAIN Animations :
              Len(Animations[a].frames) = Len(anim_call.df_agg)
        /\ FramesAligned

\* what holds: the animations that are built are aligned, and they are
\* built when the bins with members are exactly 1..n
C28_AlignedWhenBinsAreOneToN ==
    /\ FramesAligned
    /\ (ContoursMade /\ TableBins = BinsOfCall /\ TableBins = 1..Len(anim_call.df_agg)) =>
          anim.pc = "returned" /\ Len(Animations) = 3

\* the value of the only field selected for entry (k, l, m), as float32
SelectedValue(k, l, m) ==
    F32FromInt(mesh_call.row[CHOOSE f \in SelectedFields(k, l, m) : TRUE])

\* the (l, m) pairs of the call
PairsOfCall == {p \in (0..(mesh_call.lmax - 1)) \X (0..(mesh_call.lmax - 1)) : p[2] <= p[1]}

\* C30: fields are selected by substring.  For a pair (l, m) whose cosine
\* key is contained in more than one field name, [0,l,m] and [1,l,m] both
\* stay zero and the call does not fail for it: it raises only "No
\* coefficients found", and not when another pair has a single cosine field
\* with a value that is not zero.  The other pairs are still filled: a pair
\* with a single cosine field gets its value, and that of its sine field
\* when there is a single one.
C30_AmbiguousCosineFieldLeavesPairZero ==
    (mesh_call.op = "coeffs" /\ mesh_ret # NoResult) =>
        /\ mesh_ret.status \in {"ok", "Exception"}
        /\ mesh_ret.status = "Exception" => mesh_ret.message = "No coefficients found"
        /\ (\E p \in PairsOfCall :
               /\ Cardinality(SelectedFields(0, p[1], p[2])) = 1
               /\ ~F32IsZero(SelectedValue(0, p[1], p[2])))
           => mesh_ret.status = "ok"
        /\ MatrixReturned =>
              \A p \in PairsOfCall :
                 /\ Cardinality(SelectedFields(0, p[1], p[2])) > 1 =>
                       /\ F32IsZero(mesh_ret.coeffs[<<0, p[1], p[2]>>])
                       /\ F32IsZero(mesh_ret.coeffs[<<1, p[1], p[2]>>])
                 /\ Cardinality(SelectedFields(0, p[1], p[2])) = 1 =>
                       /\ mesh_ret.coeffs[<<0, p[1], p[2]>>] = SelectedValue(0, p[1], p[2])
                       /\ Cardinality(SelectedFields(1, p[1], p[2])) = 1 =>
                             mesh_ret.coeffs[<<1, p[1], p[2]>>] =
                                SelectedValue(1, p[1], p[2])

\* C30 witness: with prefix L the key L0M0C is contained in a field of the
\* nucleus and in one of the membrane; the call returned, the entries of
\* (0, 0) are zero although the row has a single sine field for it with a
\* value that is not zero, and the entries of (1, 1) are filled.
C30_Witness ==
    /\ MatrixReturned
    /\ mesh_call.lmax = 2
    /\ Cardinality(SelectedFields(0, 0, 0)) = 2
    /\ Cardinality(SelectedFields(1, 0, 0)) = 1
    /\ ~F32IsZero(SelectedValue(1, 0, 0))
    /\ F32IsZero(mesh_ret.coeffs[<<0, 0, 0>>])
    /\ F32IsZero(mesh_ret.coeffs[<<1, 0, 0>>])
    /\ ~F32IsZero(mesh_ret.coeffs[<<0, 1, 1>>])
    /\ ~F32IsZero(mesh_ret.coeffs[<<1, 1, 1>>])

NextFilter == CallFilter

SpecFilter == InitFilter /\ [][NextFilter]_vars

NextDigitize == CallDigitize \/ CallDigitizeAgain

SpecDigitize == InitDigitize /\ [][NextDigitize]_vars

NextCoeffs == CallGetShcoeffMatrix \/ CallGetMesh

SpecCoeffs == InitCoeffs /\ [][NextCoeffs]_vars

NextPcCoords == CallGetShcoeffsFromPcCoords

SpecPcCoords == InitPcCoords /\ [][NextPcCoords]_vars

NextTransform == CallTransformCoordsToMemSpace

SpecTransform == InitTransform /\ [][NextTransform]_vars

NextPlane == CallFindPlaneMeshIntersection \/ CallFindPlaneMeshIntersectionAgain

SpecPlane == InitPlane /\ [][NextPlane]_vars

NextAgg ==
    \/ RunPrologue
    \/ RunDistribute
    \/ RunAggregateRow
    \/ RunReturn
    \/ \E b \in 1..MaxAggRows : WorkerRun(b)

SpecAgg == InitAgg /\ [][NextAgg]_vars

NextAnimate ==
    \/ AnimStoreOffsets
    \/ AnimMemContours
    \/ AnimDnaContours
    \/ AnimStoreProjection
    \/ AnimRender

SpecAnimate == InitAnimate /\ [][NextAnimate]_vars

NextPlot ==
    \E m \in Makers :
        \/ PlotWorkflow(m)
        \/ \E display \in BOOLEAN : PlotSave(m, display)
        \/ \E display \in BOOLEAN : PlotExecute(m, display)

SpecPlot == InitPlot /\ [][NextPlot]_vars

Init ==
    \/ InitFilter \/ InitDigitize \/ InitCoeffs \/ InitPcCoords \/ InitTransform
    \/ InitPlane
    \/ InitAgg \/ InitAnimate \/ InitPlot

Next ==
    \/ CallFilter
    \/ CallDigitize
    \/ CallDigitizeAgain
    \/ CallGetShcoeffMatrix
    \/ CallGetMesh
    \/ CallGetShcoeffsFromPcCoords
    \/ CallTransformCoordsToMemSpace
    \/ CallFindPlaneMeshIntersection
    \/ CallFindPlaneMeshIntersectionAgain
    \/ RunPrologue
    \/ RunDistribute
    \/ RunAggregateRow
    \/ RunReturn
    \/ \E b \in 1..MaxAggRows : WorkerRun(b)
    \/ AnimStoreOffsets
    \/ AnimMemContours
    \/ AnimDnaContours
    \/ AnimStoreProjection
    \/ AnimRender
    \/ \E m \in Makers : PlotWorkflow(m)
    \/ \E m \in Makers, display \in BOOLEAN : PlotSave(m, display)
    \/ \E m \in Makers, display \in BOOLEAN : PlotExecute(m, display)

Spec == Init /\ [][Next]_vars
====
